---- MODULE Spec2Model ----
(***************************************************************************)
(* Model of the clipboard-history capture engine, src-tauri/src/lib.rs.    *)
(*                                                                         *)
(* Values.  An Option<T> is a sequence: None is << >> and Some(x) is       *)
(* <<x>>.  A text is a sequence of one-character tokens; "CR", "LF", "SP"  *)
(* stand for the characters \r, \n and the space, "LOG" for one of the     *)
(* diagnostic substrings of is_internal_log_text, "REFP"/"REFQ" for a      *)
(* string (data URI, file URL or path) that decodes to a picture and       *)
(* "TAGP" for an <img src=...> tag whose source decodes to a picture.      *)
(* SHA-256 is collision free in the model: hash_bytes wraps its argument.  *)
(* PNG bytes are <<"png", picture, colour type>>.                          *)
(***************************************************************************)
EXTENDS Integers, Sequences, FiniteSets, TLC

VARIABLES
    history,       \* the records of clipboard-history.json, in file order
    blobs,         \* file names present in clipboard-images/
    guard,         \* AppState.last_capture_fingerprint
    clip,          \* the system clipboard (what each read API returns)
    now,           \* the wall clock read by now_ms()
    historyLimit,  \* settings.history_limit as persisted in settings.json
    lock,          \* AppState.history_lock: free or the thread that holds it
    pc,            \* per thread: position inside the command it runs
    loc,           \* per thread: the locals of the command it runs
    pin,           \* input of the pure function under check
    pout,          \* its output
    calls,         \* commands started so far in an interleaved run
    storageDir,    \* settings.storage_dir as persisted: the directory in effect
    newRoot,       \* the directory "B" a change of storage_dir names
    fplock         \* the mutex around last_capture_fingerprint: free or its holder

vars == <<history, blobs, guard, clip, now, historyLimit, lock, pc, loc, pin, pout, calls,
          storageDir, newRoot, fplock>>

---------------------------------------------------------------------------
(* Bounds *)

\* the clock runs from 0 to MaxTime
MaxTime == 2
\* stand-ins for the clamp range 50..5000 of history_limit
LimitLo == 1
LimitHi == 2
\* longest list given to the clean pass, largest limit given to the upsert
MaxList == 3

---------------------------------------------------------------------------
(* Options and sequences *)

None == << >>
Some(x) == <<x>>

Range(s) == {s[i] : i \in DOMAIN s}

\* Vec::remove(idx)
RemoveAt(s, idx) == SubSeq(s, 1, idx - 1) \o SubSeq(s, idx + 1, Len(s))

\* iter().position(pred): the first index whose element satisfies P, or 0
Position(s, P(_)) ==
    IF \E i \in DOMAIN s : P(s[i])
    THEN CHOOSE i \in DOMAIN s : P(s[i]) /\ \A j \in 1..(i - 1) : ~P(s[j])
    ELSE 0

\* a truncate that drops nothing
KeepAll(s, n) == s

\* a truncation that spares the favorites
TruncateSparingFavorites(s, n) ==
    IF Len(s) > n
    THEN SubSeq(s, 1, n) \o SelectSeq(SubSeq(s, n + 1, Len(s)), LAMBDA it : it.is_favorite)
    ELSE s

\* Vec::truncate(n)
Truncate(s, n) == IF Len(s) > n THEN SubSeq(s, 1, n) ELSE s

\* insert x into the descending-by-updated_at sequence s after every element
\* that is not smaller (one step of a stable sort)
RECURSIVE InsertDesc(_, _)
InsertDesc(s, x) ==
    IF s = << >> THEN <<x>>
    ELSE IF Head(s).updated_at >= x.updated_at
         THEN <<Head(s)>> \o InsertDesc(Tail(s), x)
         ELSE <<x>> \o s

\* sort_by(|a, b| b.updated_at.cmp(&a.updated_at)): stable, descending
RECURSIVE SortDesc(_)
SortDesc(s) ==
    IF s = << >> THEN << >>
    ELSE InsertDesc(SortDesc(SubSeq(s, 1, Len(s) - 1)), s[Len(s)])

---------------------------------------------------------------------------
(* Canonicalizer *)

Whitespace == {"SP", "CR", "LF"}

RECURSIVE ReplaceCrLf(_)
ReplaceCrLf(s) ==
    IF s = << >> THEN << >>
    ELSE IF Len(s) >= 2 /\ s[1] = "CR" /\ s[2] = "LF"
         THEN <<"LF">> \o ReplaceCrLf(SubSeq(s, 3, Len(s)))
         ELSE <<s[1]>> \o ReplaceCrLf(Tail(s))

RECURSIVE TrimStart(_)
TrimStart(s) ==
    IF s # << >> /\ Head(s) \in Whitespace THEN TrimStart(Tail(s)) ELSE s

RECURSIVE TrimEnd(_)
TrimEnd(s) ==
    IF s # << >> /\ s[Len(s)] \in Whitespace
    THEN TrimEnd(SubSeq(s, 1, Len(s) - 1))
    ELSE s

Trim(s) == TrimEnd(TrimStart(s))

normalize_text(text) == Trim(ReplaceCrLf(text))

hash_bytes(bytes) == <<"sha256">> \o bytes

\* a filter that lets every text pass
no_internal_log_text(text) == FALSE

is_internal_log_text(text) ==
    LET normalized == Trim(text)
    IN  normalized # << >> /\ "LOG" \in Range(normalized)

\* the picture a reference token decodes to
RefPicture(tok) == IF tok \in {"REFP", "TAGP"} THEN "P" ELSE "Q"

\* PNG encoders: an RGBA pixel buffer, and a decoded file (which keeps the
\* colour type of the file)
encode_rgba_to_png_bytes(pic) == <<"png", pic, "rgba">>
encode_dynamic_to_png_bytes(pic) == <<"png", pic, "rgb">>

\* a fingerprint taken from the record id instead of the content hash
fingerprint_by_id(item) == <<item.item_type, item.id>>

fingerprint(item) == <<item.item_type, item.content_hash>>

---------------------------------------------------------------------------
(* Records *)

\* struct ClipboardItem
ClipboardItem(id, item_type, text, image_path, preview, content_hash, is_favorite, created_at, updated_at) ==
    [id |-> id, item_type |-> item_type, text |-> text,
     image_path |-> image_path, image_preview_data_url |-> preview,
     content_hash |-> content_hash, is_favorite |-> is_favorite,
     created_at |-> created_at, updated_at |-> updated_at]

\* the dedup key of an item
SameKey(a, b) == a.item_type = b.item_type /\ a.content_hash = b.content_hash

\* fs::write/fs::read of the history file: serde writes every field, so the
\* file holds the records as given
StripPreview(item) == [item EXCEPT !.image_preview_data_url = None]

save_history(items) == [i \in DOMAIN items |-> StripPreview(items[i])]

load_history(file) == SortDesc(file)

\* a history file that exists and that serde_json cannot parse: the one entry
\* stands for its bytes
Damaged ==
    <<ClipboardItem(<<"damaged">>, "damaged", None, None, None, <<"damaged">>, FALSE, 0, 0)>>

\* lines 491-492 of load_history: from_str fails
Unparsable(file) == \E i \in DOMAIN file : file[i].item_type = "damaged"

---------------------------------------------------------------------------
(* Blob store and item construction *)

\* the blob file of a content hash: <first 24 hex chars>.png
BlobName(content_hash) == content_hash

BlobPath(content_hash) == <<"clipboard-images">> \o BlobName(content_hash)

\* a store that names the blob file after the time of the capture
image_item_named_by_time(bl, png_bytes, t) ==
    LET content_hash == hash_bytes(png_bytes)
    IN  [item |-> ClipboardItem(<<"img", t>> \o content_hash, "image", None,
                                Some(<<"clipboard-images", t>>), Some(png_bytes),
                                content_hash, FALSE, t, t),
         blobs |-> bl \cup {<<t>>},
         wrote |-> TRUE]

\* the result of image_item_from_png_bytes: the item, the blob directory and
\* whether fs::write ran
image_item_from_png_bytes(bl, png_bytes, t) ==
    LET content_hash == hash_bytes(png_bytes)
        is_new_file == BlobName(content_hash) \notin bl
    IN  [item |-> ClipboardItem(<<"img", t>> \o content_hash, "image", None,
                                Some(BlobPath(content_hash)),
                                IF is_new_file THEN Some(png_bytes) ELSE None,
                                content_hash, FALSE, t, t),
         blobs |-> bl \cup {BlobName(content_hash)},
         wrote |-> is_new_file]

to_text_item(text, t) ==
    LET normalized == normalize_text(text)
        content_hash == hash_bytes(normalized)
    IN  ClipboardItem(<<"txt", t>> \o content_hash, "text", Some(normalized),
                      None, None, content_hash, FALSE, t, t)

\* build_image_preview_data_url(..).ok().flatten(): the blob's bytes, when the
\* item is an image whose blob file can be read
build_image_preview_data_url(bl, item) ==
    IF item.item_type # "image" \/ item.image_path = None THEN None
    ELSE IF BlobName(item.content_hash) \in bl
         THEN Some(Tail(item.content_hash))
         ELSE None

\* try_image_item_from_text_source: Some([item, blobs]) when the text is a
\* reference to a picture or holds an <img> tag whose source is one
try_image_item_from_text_source(bl, text, t) ==
    LET normalized == Trim(text)
        tags == {i \in DOMAIN normalized : normalized[i] \in {"TAGP", "TAGQ"}}
        first == CHOOSE i \in tags : \A j \in tags : i <= j
    IN  IF Len(normalized) = 1 /\ normalized[1] \in {"REFP", "REFQ"}
        THEN Some(image_item_from_png_bytes(
                 bl, encode_dynamic_to_png_bytes(RefPicture(normalized[1])), t))
        ELSE IF tags # {}
             THEN Some(image_item_from_png_bytes(
                      bl, encode_dynamic_to_png_bytes(RefPicture(normalized[first])), t))
             ELSE None

image_item_from_rgba_bytes(bl, pic, t) ==
    image_item_from_png_bytes(bl, encode_rgba_to_png_bytes(pic), t)

\* image_item_from_path: a dropped file that decodes to a picture
image_item_from_path(bl, pic, t) ==
    image_item_from_png_bytes(bl, encode_dynamic_to_png_bytes(pic), t)

---------------------------------------------------------------------------
(* The system clipboard: what each read API returns.  plugin, arboard and  *)
(* dib are None (the read fails) or Some(pixel buffer), where "BAD" is a   *)
(* buffer the PNG encoder rejects; files is None or Some(list of dropped   *)
(* files), a file being a picture or "X" (not an image); html and text are *)
(* None or Some(text).                                                     *)

Clipboard(plugin, arboard, dib, files, html, text) ==
    [plugin |-> plugin, arboard |-> arboard, dib |-> dib, files |-> files,
     html |-> html, text |-> text]

EmptyClipboard == Clipboard(None, None, None, None, None, None)

TextClipboard(text) == Clipboard(None, None, None, None, None, Some(text))

\* a bitmap copy: both bitmap APIs deliver the pixels
ImageClipboard(pic) == Clipboard(Some(pic), Some(pic), None, None, None, None)

\* the contents other programs put on the clipboard
Clips ==
    { EmptyClipboard,
      TextClipboard(<<"a">>),
      TextClipboard(<<"a", "CR", "CR", "CR", "LF", "b">>),
      ImageClipboard("P") }

---------------------------------------------------------------------------
(* Capture chain of poll_clipboard, lines 1083-1191.  The result is        *)
(* [kind, item, blobs]: kind "item" with the candidate, "none" when no     *)
(* strategy yields one, "err" when the command returns a failure.          *)

Captured(r) == [kind |-> "item", item |-> r.item, blobs |-> r.blobs]

NoCapture(bl) == [kind |-> "none", item |-> None, blobs |-> bl]

CaptureError(bl) == [kind |-> "err", item |-> None, blobs |-> bl]

\* lines 1172-1190: the plain-text strategy
CaptureText(c, bl, t) ==
    IF c.text = None THEN NoCapture(bl)
    ELSE LET normalized == normalize_text(c.text[1])
             image_item == try_image_item_from_text_source(bl, normalized, t)
         IN  IF normalized = << >> THEN NoCapture(bl)
             ELSE IF is_internal_log_text(normalized) THEN NoCapture(bl)
             ELSE IF image_item # None THEN Captured(image_item[1])
             ELSE Captured([item |-> to_text_item(normalized, t), blobs |-> bl])

\* lines 1157-1168: the HTML strategy
CaptureHtml(c, bl, t) ==
    IF c.html = None THEN None
    ELSE LET normalized_html == normalize_text(c.html[1])
         IN  IF normalized_html = << >> THEN None
             ELSE try_image_item_from_text_source(bl, normalized_html, t)

\* lines 1145-1155: the first dropped file that decodes to a picture
CaptureFiles(c, bl, t) ==
    IF c.files = None THEN None
    ELSE LET paths == c.files[1]
             idx == Position(paths, LAMBDA f : f # "X")
         IN  IF idx = 0 THEN None
             ELSE Some(image_item_from_path(bl, paths[idx], t))

\* a chain that asks the HTML fragment before the file list
CaptureOtherHtmlFirst(c, bl, t) ==
    IF CaptureHtml(c, bl, t) # None THEN Captured(CaptureHtml(c, bl, t)[1])
    ELSE IF CaptureFiles(c, bl, t) # None THEN Captured(CaptureFiles(c, bl, t)[1])
    ELSE CaptureText(c, bl, t)

\* lines 1140-1191: file list, then HTML, then plain text
CaptureOther(c, bl, t) ==
    IF CaptureFiles(c, bl, t) # None THEN Captured(CaptureFiles(c, bl, t)[1])
    ELSE IF CaptureHtml(c, bl, t) # None THEN Captured(CaptureHtml(c, bl, t)[1])
    ELSE CaptureText(c, bl, t)

\* lines 1083-1138: primary bitmap, secondary bitmap (whose conversion
\* failure is returned with `?`), raw bitmap
Capture(c, bl, t) ==
    IF c.plugin # None /\ c.plugin[1] # "BAD"
    THEN Captured(image_item_from_rgba_bytes(bl, c.plugin[1], t))
    ELSE IF c.arboard # None
         THEN IF c.arboard[1] = "BAD" THEN CaptureError(bl)
              ELSE Captured(image_item_from_rgba_bytes(bl, c.arboard[1], t))
         ELSE IF c.dib # None /\ c.dib[1] # "BAD"
              THEN Captured(image_item_from_rgba_bytes(bl, c.dib[1], t))
              ELSE CaptureOther(c, bl, t)

---------------------------------------------------------------------------
(* History store *)

\* an upsert that never looks for the key
upsert_without_dedupe(items, incoming, history_limit, t) ==
    Truncate(<<incoming>> \o items, history_limit)

\* an upsert that puts a new record at the back
upsert_at_back(items, incoming, history_limit, t) ==
    LET idx == Position(items, LAMBDA it : SameKey(it, incoming))
    IN  Truncate(IF idx # 0
                 THEN <<[items[idx] EXCEPT !.updated_at = t]>> \o RemoveAt(items, idx)
                 ELSE items \o <<incoming>>,
                 history_limit)

\* an upsert that stores the incoming record in place of the existing one
upsert_incoming_record(items, incoming, history_limit, t) ==
    LET idx == Position(items, LAMBDA it : SameKey(it, incoming))
    IN  Truncate(<<incoming>> \o (IF idx # 0 THEN RemoveAt(items, idx) ELSE items),
                 history_limit)

\* dedupe_and_upsert(&mut items, incoming, history_limit), t being now_ms()
dedupe_and_upsert(items, incoming, history_limit, t) ==
    LET idx == Position(items, LAMBDA it : SameKey(it, incoming))
        merged == [items[idx] EXCEPT
                      !.updated_at = t,
                      !.image_preview_data_url =
                          IF incoming.image_preview_data_url # None
                          THEN incoming.image_preview_data_url
                          ELSE items[idx].image_preview_data_url]
        upserted == IF idx # 0
                    THEN <<merged>> \o RemoveAt(items, idx)
                    ELSE <<incoming>> \o items
    IN  Truncate(upserted, history_limit)

\* lines 503-507 of clean_history: a text item's text is normalized again
CleanText(item) ==
    IF item.item_type = "text" /\ item.text # None
    THEN [item EXCEPT !.text = Some(normalize_text(item.text[1]))]
    ELSE item

\* a merge that keeps the first record of a key as it is
CleanIntoFirstWins(cleaned, item) ==
    IF Position(cleaned, LAMBDA it : SameKey(it, item)) = 0
    THEN Append(cleaned, item)
    ELSE cleaned

\* lines 509-523 of clean_history: merge one item into the kept ones
CleanInto(cleaned, item) ==
    LET idx == Position(cleaned, LAMBDA it : SameKey(it, item))
    IN  IF idx = 0 THEN Append(cleaned, item)
        ELSE IF item.updated_at > cleaned[idx].updated_at
             THEN [cleaned EXCEPT ![idx] =
                      [item EXCEPT
                          !.updated_at = IF item.updated_at >= cleaned[idx].updated_at
                                         THEN item.updated_at
                                         ELSE cleaned[idx].updated_at,
                          !.is_favorite = item.is_favorite \/ cleaned[idx].is_favorite]]
             ELSE [cleaned EXCEPT ![idx].is_favorite =
                      cleaned[idx].is_favorite \/ item.is_favorite]

\* the loop of clean_history over the sorted items
RECURSIVE CleanLoop(_, _)
CleanLoop(sorted, cleaned) ==
    IF sorted = << >> THEN cleaned
    ELSE CleanLoop(Tail(sorted), CleanInto(cleaned, CleanText(Head(sorted))))

\* clean_history up to and including the second sort (line 526)
CleanMerge(items) == SortDesc(CleanLoop(SortDesc(items), << >>))

\* clean_history(items, history_limit)
clean_history(items, history_limit) == Truncate(CleanMerge(items), history_limit)

\* load_history_clean: load, clean with the limit of the settings, no previews
load_history_clean(file, history_limit) ==
    LET cleaned == clean_history(load_history(file), history_limit)
    IN  [i \in DOMAIN cleaned |-> StripPreview(cleaned[i])]

\* history_limit.clamp(50, 5000), on the scale of the model
normalize_settings(history_limit) ==
    IF history_limit < LimitLo THEN LimitLo
    ELSE IF history_limit > LimitHi THEN LimitHi
    ELSE history_limit

\* fingerprint_from_current_clipboard(): secondary bitmap, raw bitmap, text
fingerprint_from_current_clipboard(c) ==
    IF c.arboard # None /\ c.arboard[1] # "BAD"
    THEN Some(<<"image", hash_bytes(encode_rgba_to_png_bytes(c.arboard[1]))>>)
    ELSE IF c.dib # None /\ c.dib[1] # "BAD"
         THEN Some(<<"image", hash_bytes(encode_rgba_to_png_bytes(c.dib[1]))>>)
         ELSE IF c.text # None
                 /\ normalize_text(c.text[1]) # << >>
                 /\ ~is_internal_log_text(normalize_text(c.text[1]))
              THEN Some(<<"text", hash_bytes(normalize_text(c.text[1]))>>)
              ELSE None

\* what arboard's set_text and set_image leave on the clipboard
ClipboardAfterCopy(item) ==
    IF item.item_type = "text"
    THEN TextClipboard(IF item.text = None THEN << >> ELSE item.text[1])
    ELSE ImageClipboard(item.content_hash[3])

---------------------------------------------------------------------------
(* Commands as functions of the state they run in.  A state is the record  *)
(* of the files, the guard, the clipboard, the clock and the setting; a    *)
(* command returns [s, ok, val]: the state it leaves, Ok or Err, and the   *)
(* value inside Ok (None for Ok(None) and Ok(())).                         *)

State == [history |-> history, blobs |-> blobs, guard |-> guard, clip |-> clip,
          now |-> now, historyLimit |-> historyLimit]

Ok(s, val) == [s |-> s, ok |-> TRUE, val |-> val]

Err(s) == [s |-> s, ok |-> FALSE, val |-> None]

\* the candidate of a poll in state s
Candidate(s) == Capture(s.clip, s.blobs, s.now)

\* lines 1228-1231 of poll_clipboard: load, upsert with the limit of the settings
PollUpsert(file, item, history_limit, t) ==
    dedupe_and_upsert(load_history(file), item, history_limit, t)

\* lines 1246-1249 of poll_clipboard: the first record, with its preview
PollLatest(items, bl) ==
    [items[1] EXCEPT !.image_preview_data_url = build_image_preview_data_url(bl, items[1])]

\* a poll that removes the blob files no record of the written list names
poll_clipboard_pruning(s) ==
    LET cap == Candidate(s)
        items == PollUpsert(s.history, cap.item, s.historyLimit, s.now)
        captured == [s EXCEPT !.blobs = cap.blobs]
        named == {BlobName(items[i].content_hash) : i \in DOMAIN items}
    IN  IF cap.kind = "err" THEN Err(captured)
        ELSE IF cap.kind = "none" THEN Ok(captured, None)
        ELSE IF s.guard = Some(fingerprint(cap.item)) THEN Ok(captured, None)
        ELSE Ok([captured EXCEPT !.guard = Some(fingerprint(cap.item)),
                                 !.history = save_history(items),
                                 !.blobs = cap.blobs \cap named],
                Some(PollLatest(items, cap.blobs)))

\* a poll that empties the guard when it finds no candidate
poll_clipboard_forgetting(s) ==
    LET cap == Candidate(s)
        items == PollUpsert(s.history, cap.item, s.historyLimit, s.now)
        captured == [s EXCEPT !.blobs = cap.blobs]
    IN  IF cap.kind = "err" THEN Err(captured)
        ELSE IF cap.kind = "none" THEN Ok([captured EXCEPT !.guard = None], None)
        ELSE IF s.guard = Some(fingerprint(cap.item)) THEN Ok(captured, None)
        ELSE IF Unparsable(s.history)
        THEN Err([captured EXCEPT !.guard = Some(fingerprint(cap.item))])
        ELSE Ok([captured EXCEPT !.guard = Some(fingerprint(cap.item)),
                                 !.history = save_history(items)],
                Some(PollLatest(items, cap.blobs)))

\* poll_clipboard
poll_clipboard(s) ==
    LET cap == Candidate(s)
        items == PollUpsert(s.history, cap.item, s.historyLimit, s.now)
        captured == [s EXCEPT !.blobs = cap.blobs]
    IN  IF cap.kind = "err" THEN Err(captured)
        ELSE IF cap.kind = "none" THEN Ok(captured, None)
        ELSE IF s.guard = Some(fingerprint(cap.item)) THEN Ok(captured, None)
        ELSE IF Unparsable(s.history)
        THEN Err([captured EXCEPT !.guard = Some(fingerprint(cap.item))])
        ELSE Ok([captured EXCEPT !.guard = Some(fingerprint(cap.item)),
                                 !.history = save_history(items)],
                Some(PollLatest(items, cap.blobs)))

\* copy_history_item(id); write_ok: whether set_text/set_image succeeds
copy_history_item(s, id, write_ok) ==
    LET items == load_history_clean(s.history, s.historyLimit)
        idx == Position(items, LAMBDA it : it.id = id)
        item == items[idx]
    IN  IF Unparsable(s.history) THEN Err(s)
        ELSE IF idx = 0 THEN Err(s)
        ELSE IF item.item_type # "text"
                /\ (item.image_path = None \/ BlobName(item.content_hash) \notin s.blobs)
        THEN Err(s)
        ELSE IF ~write_ok THEN Err(s)
        ELSE Ok([s EXCEPT !.clip = ClipboardAfterCopy(item),
                          !.guard = Some(fingerprint(item))], None)

\* a toggle that leaves the record where it is
ToggleInPlace(items, idx, t) ==
    [items EXCEPT ![idx].is_favorite = ~items[idx].is_favorite,
                  ![idx].updated_at = t]

\* lines 1302-1316 of toggle_favorite: flip, stamp, sort, move to the front
ToggleItems(items, idx, t) ==
    LET flipped == [items EXCEPT ![idx].is_favorite = ~items[idx].is_favorite,
                                 ![idx].updated_at = t]
        sorted == SortDesc(flipped)
        at == Position(sorted, LAMBDA it : it.id = items[idx].id)
    IN  <<sorted[at]>> \o RemoveAt(sorted, at)

\* a toggle that fails on an id it does not find
toggle_favorite_strict(s, id) ==
    LET items == load_history_clean(s.history, s.historyLimit)
        idx == Position(items, LAMBDA it : it.id = id)
    IN  IF idx = 0 THEN Err(s)
        ELSE Ok([s EXCEPT !.history = save_history(ToggleItems(items, idx, s.now))],
                Some(items[idx]))

\* toggle_favorite(id)
toggle_favorite(s, id) ==
    LET items == load_history_clean(s.history, s.historyLimit)
        idx == Position(items, LAMBDA it : it.id = id)
        updated == [items[idx] EXCEPT !.is_favorite = ~items[idx].is_favorite,
                                      !.updated_at = s.now]
    IN  IF Unparsable(s.history) THEN Err(s)
        ELSE IF idx = 0 THEN Ok(s, None)
        ELSE Ok([s EXCEPT !.history = save_history(ToggleItems(items, idx, s.now))],
                Some(updated))

\* a delete that leaves the blob file
BlobsKept(bl, removed) == bl

\* lines 1337-1344 of delete_history_item: the blob of a removed image item
BlobsAfterDelete(bl, removed) ==
    IF removed.item_type = "image" /\ removed.image_path # None
    THEN bl \ {BlobName(removed.content_hash)}
    ELSE bl

\* a delete that leaves the guard as it is
GuardKept(g, removed) == g

\* lines 1348-1354 of delete_history_item
GuardAfterDelete(g, removed) ==
    IF g = Some(fingerprint(removed)) THEN None ELSE g

\* delete_history_item(id)
delete_history_item(s, id) ==
    LET items == load_history_clean(s.history, s.historyLimit)
        idx == Position(items, LAMBDA it : it.id = id)
    IN  IF Unparsable(s.history) THEN Err(s)
        ELSE IF idx = 0 THEN Err(s)
        ELSE Ok([s EXCEPT !.blobs = BlobsAfterDelete(s.blobs, items[idx]),
                          !.history = save_history(RemoveAt(items, idx)),
                          !.guard = GuardAfterDelete(s.guard, items[idx])], None)

\* clear_history
clear_history(s) ==
    Ok([s EXCEPT !.history = save_history(<< >>),
                 !.blobs = {},
                 !.guard = fingerprint_from_current_clipboard(s.clip)], None)

\* a get_history that resets a file it cannot parse
get_history_resetting(s) ==
    IF Unparsable(s.history) THEN Ok([s EXCEPT !.history = << >>], << >>)
    ELSE Ok(s, load_history_clean(s.history, s.historyLimit))

\* get_history
get_history(s) ==
    IF Unparsable(s.history) THEN Err(s)
    ELSE Ok(s, load_history_clean(s.history, s.historyLimit))

\* get_image_preview(id): Err for an unknown id and for an image whose blob
\* cannot be read, Ok(None) for a text item, Ok(Some(data url)) otherwise
get_image_preview(s, id) ==
    LET items == load_history_clean(s.history, s.historyLimit)
        idx == Position(items, LAMBDA it : it.id = id)
        item == items[idx]
    IN  IF Unparsable(s.history) THEN Err(s)
        ELSE IF idx = 0 THEN Err(s)
        ELSE IF item.item_type = "image" /\ item.image_path # None
                /\ BlobName(item.content_hash) \notin s.blobs
        THEN Err(s)
        ELSE Ok(s, build_image_preview_data_url(s.blobs, item))

\* update_settings with payload.history_limit = Some(v) and no other field
update_settings(s, v) == Ok([s EXCEPT !.historyLimit = normalize_settings(v)], None)

---------------------------------------------------------------------------
(* Storage roots and their relocation *)

\* A storage root is a directory that data_dir_from_settings has created: its
\* history file (None: no such file) and its image sub-directory (None: no
\* such directory), a function from entry names to <<"file", bytes>> or <<"dir">>.
\* A file system maps directories to roots; Resolve gives the directory a path
\* names, "A2" being a second spelling of "A".
Resolve(path) == IF path = "A2" THEN "A" ELSE path

Entries(root) == IF root.images = None THEN << >> ELSE root.images[1]

\* the names of the files of the image sub-directory
BlobFiles(root) == {name \in DOMAIN Entries(root) : Entries(root)[name][1] = "file"}

\* a relocation that copies the old root over the new one
migrate_overwriting(fs, old_dir, new_dir, fail) ==
    LET o == Resolve(old_dir)
        n == Resolve(new_dir)
    IN  IF old_dir = new_dir THEN [fs |-> fs, ok |-> TRUE]
        ELSE [fs |-> [fs EXCEPT ![n] = fs[o]], ok |-> TRUE]

\* migrate_storage_if_needed(old_dir, new_dir) on the file system fs. fail is
\* the I/O error that strikes: <<"none">>, <<"copy_history">>,
\* <<"create_images">> or <<"copy_blob", done>>, done being the entries
\* read_dir delivered before the one whose copy fails. The result is the file
\* system afterwards and whether Ok(()) was returned.
migrate_storage_if_needed(fs, old_dir, new_dir, fail) ==
    LET o == Resolve(old_dir)
        n == Resolve(new_dir)
        copy_history == fs[o].history # None /\ fs[n].history = None
        fs1 == IF copy_history THEN [fs EXCEPT ![n].history = fs[o].history] ELSE fs
        fs2 == IF fs1[n].images = None
               THEN [fs1 EXCEPT ![n].images = Some(<< >>)] ELSE fs1
        todo == {name \in BlobFiles(fs2[o]) : name \notin DOMAIN Entries(fs2[n])}
        failing == fail[1] = "copy_blob" /\ todo \ fail[2] # {}
        copied == IF failing THEN todo \cap fail[2] ELSE todo
        images == [name \in DOMAIN Entries(fs2[n]) \cup copied |->
                      IF name \in copied THEN Entries(fs2[o])[name]
                      ELSE Entries(fs2[n])[name]]
        fs3 == [fs2 EXCEPT ![n].images = Some(images)]
    IN  IF old_dir = new_dir THEN [fs |-> fs, ok |-> TRUE]
        ELSE IF copy_history /\ fail[1] = "copy_history" THEN [fs |-> fs, ok |-> FALSE]
        ELSE IF fs1[o].images = None THEN [fs |-> fs1, ok |-> TRUE]
        ELSE IF fs1[n].images = None /\ fail[1] = "create_images"
             THEN [fs |-> fs1, ok |-> FALSE]
        ELSE [fs |-> fs3, ok |-> ~failing]

\* the storage root the commands of state s work on: every blob file holds the
\* bytes it is named after
RootOf(s) ==
    [history |-> Some(s.history),
     images |-> Some([name \in s.blobs |-> <<"file", Tail(name)>>])]

\* a directory just created
FreshRoot == [history |-> None, images |-> None]

\* the file system in which the root of s is directory "A" and "B" is new
FsOf(s) == [d \in {"A", "B"} |-> IF d = "A" THEN RootOf(s) ELSE FreshRoot]

---------------------------------------------------------------------------
(* The state machine in which every command runs from call to return *)

Procs == {"t1", "t2"}

UnknownId == <<"nonexistent", 0>>

\* the ids a caller may pass: those of the stored records and one that is not
Ids == {history[i].id : i \in DOMAIN history} \cup {UnknownId}

Init ==
    /\ history = << >>
    /\ blobs = {}
    /\ guard = None
    /\ clip = EmptyClipboard
    /\ now = 0
    /\ historyLimit = LimitHi
    /\ lock = "free"
    /\ pc = [p \in Procs |-> "idle"]
    /\ loc = [p \in Procs |-> None]
    /\ pin = None
    /\ pout = None
    /\ calls = 0
    /\ storageDir = "A"
    /\ newRoot = FreshRoot
    /\ fplock = "free"

\* poll_clipboard
Poll ==
    LET r == poll_clipboard(State)
    IN  /\ history' = r.s.history
        /\ blobs' = r.s.blobs
        /\ guard' = r.s.guard
        /\ UNCHANGED <<clip, now, historyLimit, lock, pc, loc, pin, pout, calls, storageDir, newRoot, fplock>>

\* copy_history_item(id)
CopyToClipboard(id, write_ok) ==
    LET r == copy_history_item(State, id, write_ok)
    IN  /\ clip' = r.s.clip
        /\ guard' = r.s.guard
        /\ UNCHANGED <<history, blobs, now, historyLimit, lock, pc, loc, pin, pout, calls, storageDir, newRoot, fplock>>

\* toggle_favorite(id)
ToggleFavorite(id) ==
    LET r == toggle_favorite(State, id)
    IN  /\ history' = r.s.history
        /\ UNCHANGED <<blobs, guard, clip, now, historyLimit, lock, pc, loc, pin, pout, calls, storageDir, newRoot, fplock>>

\* delete_history_item(id)
DeleteItem(id) ==
    LET r == delete_history_item(State, id)
    IN  /\ history' = r.s.history
        /\ blobs' = r.s.blobs
        /\ guard' = r.s.guard
        /\ UNCHANGED <<clip, now, historyLimit, lock, pc, loc, pin, pout, calls, storageDir, newRoot, fplock>>

\* clear_history
ClearHistory ==
    LET r == clear_history(State)
    IN  /\ history' = r.s.history
        /\ blobs' = r.s.blobs
        /\ guard' = r.s.guard
        /\ UNCHANGED <<clip, now, historyLimit, lock, pc, loc, pin, pout, calls, storageDir, newRoot, fplock>>

\* update_settings
UpdateSettings(v) ==
    LET r == update_settings(State, v)
    IN  /\ historyLimit' = r.s.historyLimit
        /\ UNCHANGED <<history, blobs, guard, clip, now, lock, pc, loc, pin, pout, calls, storageDir, newRoot, fplock>>

\* another program puts c on the clipboard
SetClipboard(c) ==
    /\ c # clip
    /\ clip' = c
    /\ UNCHANGED <<history, blobs, guard, now, historyLimit, lock, pc, loc, pin, pout, calls, storageDir, newRoot, fplock>>

\* time passes
Tick ==
    /\ now < MaxTime
    /\ now' = now + 1
    /\ UNCHANGED <<history, blobs, guard, clip, historyLimit, lock, pc, loc, pin, pout, calls, storageDir, newRoot, fplock>>

Next ==
    \/ Poll
    \/ \E id \in Ids, write_ok \in BOOLEAN : CopyToClipboard(id, write_ok)
    \/ \E id \in Ids : ToggleFavorite(id)
    \/ \E id \in Ids : DeleteItem(id)
    \/ ClearHistory
    \/ \E v \in (LimitLo - 1)..(LimitHi + 1) : UpdateSettings(v)
    \/ \E c \in Clips : SetClipboard(c)
    \/ Tick

Spec == Init /\ [][Next]_vars

\* the history file is damaged from outside
DamageFile ==
    /\ ~Unparsable(history)
    /\ history' = Damaged
    /\ UNCHANGED <<blobs, guard, clip, now, historyLimit, lock, pc, loc, pin, pout, calls, storageDir, newRoot, fplock>>

\* get_history
GetHistory ==
    LET r == get_history(State)
    IN  /\ history' = r.s.history
        /\ UNCHANGED <<blobs, guard, clip, now, historyLimit, lock, pc, loc, pin, pout, calls, storageDir, newRoot, fplock>>

\* the commands, with a history file that can be damaged between them
NextDamage ==
    \/ Poll
    \/ \E id \in Ids, write_ok \in BOOLEAN : CopyToClipboard(id, write_ok)
    \/ \E id \in Ids : ToggleFavorite(id)
    \/ \E id \in Ids : DeleteItem(id)
    \/ ClearHistory
    \/ GetHistory
    \/ \E v \in (LimitLo - 1)..(LimitHi + 1) : UpdateSettings(v)
    \/ DamageFile
    \/ \E c \in Clips : SetClipboard(c)
    \/ Tick

SpecDamage == Init /\ [][NextDamage]_vars

---------------------------------------------------------------------------
(* Properties of the commands *)

\* s after dt more milliseconds
Later(s, dt) == [s EXCEPT !.now = s.now + dt]

\* the index in the stored list of the record with the key of item k, or 0
KeyIndex(items, k) == Position(items, LAMBDA it : SameKey(it, k))

\* the index in the stored list of the record with this id, or 0
IdIndex(items, id) == Position(items, LAMBDA it : it.id = id)

\* a poll in the current state produces a candidate the guard lets through
PollAccepts ==
    /\ Candidate(State).kind = "item"
    /\ guard # Some(fingerprint(Candidate(State).item))

\* C2: when a poll returns an item and the clipboard is not changed, the poll
\* that runs next (at the same or a later time) returns Ok(None) and leaves
\* the stored history exactly as the first poll wrote it.
C2_SecondPollReturnsNothing ==
    LET r1 == poll_clipboard(State)
    IN  (r1.ok /\ r1.val # None) =>
            \A dt \in 0..(MaxTime - now) :
                LET r2 == poll_clipboard(Later(r1.s, dt))
                IN  r2.ok /\ r2.val = None /\ r2.s.history = r1.s.history

\* a poll has stored the clipboard's content and the clipboard still holds it:
\* the poll that runs here is the second one
C2_Witness ==
    /\ Candidate(State).kind = "item"
    /\ guard = Some(fingerprint(Candidate(State).item))
    /\ history # << >>
    /\ SameKey(history[1], Candidate(State).item)
    /\ poll_clipboard(State).val = None

\* C3 (as claimed): a poll whose candidate has the fingerprint held by the
\* guard writes nothing: the history file and the blob directory are the same
\* after it as before it.
C3_GuardedPollWritesNothing ==
    (Candidate(State).kind = "item" /\ guard = Some(fingerprint(Candidate(State).item)))
        => /\ poll_clipboard(State).s.history = history
           /\ poll_clipboard(State).s.blobs = blobs

\* C5: get_history returns at most historyLimit records, and the list written
\* by a poll that stores its candidate, by toggle_favorite of a known id and
\* by a successful delete_history_item has at most historyLimit records, also
\* when the stored list is longer than the limit in effect.
C5_HistoryCapped ==
    /\ Len(get_history(State).val) <= historyLimit
    /\ poll_clipboard(State).val # None
          => Len(poll_clipboard(State).s.history) <= historyLimit
    /\ \A id \in Ids :
          /\ toggle_favorite(State, id).val # None
                => Len(toggle_favorite(State, id).s.history) <= historyLimit
          /\ delete_history_item(State, id).ok
                => Len(delete_history_item(State, id).s.history) <= historyLimit

\* the stored list is longer than the limit in effect (update_settings has
\* lowered it) and the poll that runs here stores its candidate
C5_Witness ==
    /\ Len(history) > historyLimit
    /\ poll_clipboard(State).val # None
    /\ Len(poll_clipboard(State).s.history) = historyLimit

\* C7 (as claimed): when a poll stores a candidate whose key is already in the
\* history, the list does not grow, the record keeps its id, created_at,
\* is_favorite, text and image_path, gets updated_at = now and moves to index
\* 0, and every other record stays, unchanged and in the same order.
C7_MergeKeepsAllOthers ==
    LET r == poll_clipboard(State)
        idx == KeyIndex(history, Candidate(State).item)
    IN  (PollAccepts /\ idx # 0) =>
            /\ r.s.history = <<[history[idx] EXCEPT !.updated_at = now]>>
                                 \o RemoveAt(history, idx)
            /\ StripPreview(r.val[1]) = r.s.history[1]

\* C7 (amended): as above, except that the resulting list is cut to
\* historyLimit records, so records at its tail are dropped when the stored
\* list was longer than the limit in effect.
C7_MergeKeepsOthersWithinLimit ==
    LET r == poll_clipboard(State)
        idx == KeyIndex(history, Candidate(State).item)
    IN  (PollAccepts /\ idx # 0) =>
            /\ r.s.history = Truncate(<<[history[idx] EXCEPT !.updated_at = now]>>
                                          \o RemoveAt(history, idx), historyLimit)
            /\ Len(r.s.history) <= Len(history)
            /\ StripPreview(r.val[1]) = r.s.history[1]

\* the candidate's key is stored behind another record, and time has passed
\* since it was stored: the poll that runs here merges and moves it
C7_Witness ==
    /\ PollAccepts
    /\ KeyIndex(history, Candidate(State).item) > 1
    /\ history[KeyIndex(history, Candidate(State).item)].updated_at < now
    /\ history[KeyIndex(history, Candidate(State).item)].is_favorite

\* what toggle_favorite makes of a stored record at time t
Toggled(item, t) == [item EXCEPT !.is_favorite = ~item.is_favorite, !.updated_at = t]

\* C10 (as claimed): toggle_favorite(id) for the id of a stored record negates
\* is_favorite, sets updated_at = now, stores the record at index 0 and
\* returns it; every other record keeps its fields and its order; the blob
\* directory and the guard stay as they are.
C10_ToggleMovesToFront ==
    \A i \in DOMAIN history :
        LET r == toggle_favorite(State, history[i].id)
            h == r.s.history
        IN  /\ r.ok
            /\ r.val # None
            /\ h # << >>
            /\ r.val = Some(h[1])
            /\ h[1].id = history[i].id
            /\ h[1].is_favorite = ~history[i].is_favorite
            /\ h[1].updated_at = now
            /\ Tail(h) = RemoveAt(history, i)
            /\ r.s.blobs = blobs
            /\ r.s.guard = guard

\* C10 (amended): the same for the id of a record among the first
\* historyLimit stored records, where "the record" and "every other record"
\* are the records as the clean pass leaves them (a text normalized again),
\* and records beyond the first historyLimit are dropped.
C10_ToggleMovesToFrontOfCleaned ==
    \A i \in DOMAIN history :
        LET r == toggle_favorite(State, history[i].id)
            kept == Truncate(history, historyLimit)
            seen == [j \in DOMAIN kept |-> CleanText(kept[j])]
        IN  /\ r.ok
            /\ r.s.blobs = blobs
            /\ r.s.guard = guard
            /\ i > historyLimit => r.val = None /\ r.s.history = history
            /\ i <= historyLimit =>
                  /\ r.val = Some(Toggled(seen[i], now))
                  /\ r.s.history = <<Toggled(seen[i], now)>> \o RemoveAt(seen, i)

\* a favorite stands at index 0 in front of another record, stamped after it
\* was created: toggle_favorite has run on a record that was not at the front
C10_Witness ==
    /\ Len(history) >= 2
    /\ history[1].is_favorite
    /\ history[1].created_at < history[2].created_at
    /\ history[1].updated_at > history[2].updated_at

\* the ids of the records a poll can build from the clipboard contents at
\* any time, and one id no record ever has
BuildableIds ==
    {UnknownId} \cup
    {Capture(c, {}, t).item.id :
        c \in {d \in Clips : Capture(d, {}, 0).kind = "item"}, t \in 0..MaxTime}

\* the ids among them that no stored record has
AbsentIds == BuildableIds \ {history[i].id : i \in DOMAIN history}

\* C11: for an id no stored record has, toggle_favorite returns Ok(None),
\* while delete_history_item, copy_history_item and get_image_preview return
\* Err; none of the four changes the history file, the blob directory, the
\* clipboard or the guard.
C11_UnknownIdChangesNothing ==
    \A id \in AbsentIds :
        /\ toggle_favorite(State, id) = Ok(State, None)
        /\ delete_history_item(State, id) = Err(State)
        /\ \A write_ok \in BOOLEAN : copy_history_item(State, id, write_ok) = Err(State)
        /\ get_image_preview(State, id) = Err(State)

\* records, a blob and a guard are there to be changed, and one of the absent
\* ids is the id a record stored at an earlier time would have
C11_Witness ==
    /\ Len(history) = 2
    /\ blobs # {}
    /\ guard # None
    /\ clip # EmptyClipboard
    /\ AbsentIds # {UnknownId}
    /\ \E id \in AbsentIds : id # UnknownId /\ id[2] < now

\* the ids of the records of a list
IdsOf(items) == {items[i].id : i \in DOMAIN items}

\* C12 (as claimed): after a successful delete_history_item(id) no stored
\* record has that id and every other record is still stored; the blob of a
\* deleted image item is gone; the guard is absent if it was the deleted
\* item's fingerprint and is otherwise what it was.
C12_DeleteRemovesOnlyTheItem ==
    \A i \in DOMAIN history :
        LET r == delete_history_item(State, history[i].id)
        IN  r.ok =>
              /\ IdsOf(r.s.history) = IdsOf(history) \ {history[i].id}
              /\ history[i].item_type = "image"
                    => BlobName(history[i].content_hash) \notin r.s.blobs
              /\ r.s.guard =
                    IF guard = Some(<<history[i].item_type, history[i].content_hash>>)
                    THEN None ELSE guard

\* C12 (amended): the same, where the records that remain are the other
\* records among the first historyLimit stored ones, as the clean pass leaves
\* them and in their order; no other blob is removed.
C12_DeleteRemovesItemOfCleaned ==
    \A i \in DOMAIN history :
        LET r == delete_history_item(State, history[i].id)
            kept == Truncate(history, historyLimit)
            seen == [j \in DOMAIN kept |-> CleanText(kept[j])]
        IN  /\ r.ok <=> i <= historyLimit
            /\ r.ok =>
                 /\ r.s.history = RemoveAt(seen, i)
                 /\ r.s.blobs = IF history[i].item_type = "image"
                                THEN blobs \ {BlobName(history[i].content_hash)}
                                ELSE blobs
                 /\ r.s.guard =
                       IF guard = Some(<<history[i].item_type, history[i].content_hash>>)
                       THEN None ELSE guard
                 /\ r.s.clip = clip

\* an image item whose blob exists and whose fingerprint the guard holds is
\* stored behind another record: deleting it removes a blob and clears the guard
C12_Witness ==
    /\ Len(history) = 2
    /\ history[2].item_type = "image"
    /\ BlobName(history[2].content_hash) \in blobs
    /\ guard = Some(fingerprint(history[2]))
    /\ delete_history_item(State, history[2].id).ok

---------------------------------------------------------------------------
(* The commands on every kind of content the capture chain reads *)

\* one clipboard content for each strategy of the capture chain: a bitmap,
\* a dropped picture file, an HTML fragment with an <img> (and its plain
\* text), a text that refers to a picture, plain texts
SourceClips ==
    { ImageClipboard("P"),
      Clipboard(None, None, None, Some(<<"X", "P">>), None, None),
      Clipboard(None, None, None, None, Some(<<"TAGP">>), Some(<<"a">>)),
      TextClipboard(<<"REFP">>),
      TextClipboard(<<"a">>),
      TextClipboard(<<"a", "CR", "CR", "CR", "LF", "b">>) }

NextSources ==
    \/ Poll
    \/ \E id \in Ids, write_ok \in BOOLEAN : CopyToClipboard(id, write_ok)
    \/ \E id \in Ids : DeleteItem(id)
    \/ ClearHistory
    \/ \E c \in SourceClips : SetClipboard(c)
    \/ Tick

SpecSources == Init /\ [][NextSources]_vars

\* C13 (as claimed): when the clipboard holds a content poll can capture,
\* clear_history leaves an empty history, no blob and the guard equal to the
\* fingerprint of poll's candidate for that content, so the poll that follows
\* returns nothing; and the poll after the clipboard changed to a content
\* with another fingerprint returns an item.
C13_ClearGuardsCurrentContent ==
    LET x == Candidate(State)
        r == clear_history(State)
    IN  x.kind = "item" =>
          /\ r.s.history = << >>
          /\ r.s.blobs = {}
          /\ r.s.guard = Some(fingerprint(x.item))
          /\ poll_clipboard(r.s).ok
          /\ poll_clipboard(r.s).val = None
          /\ \A y \in SourceClips :
                fingerprint(Capture(y, {}, now).item) # fingerprint(x.item)
                   => poll_clipboard([r.s EXCEPT !.clip = y]).val # None

\* C14 (as claimed): a successful copy_history_item(id) sets the guard to the
\* stored item's fingerprint and changes neither the history file nor the
\* blob directory, and the poll that follows on the clipboard it wrote
\* returns nothing and leaves the history file as it is; a failed one leaves
\* the guard as it is.
C14_CopyIsNotCapturedAgain ==
    \A i \in DOMAIN history, write_ok \in BOOLEAN :
        LET r == copy_history_item(State, history[i].id, write_ok)
        IN  /\ r.ok =>
                /\ r.s.guard = Some(<<history[i].item_type, history[i].content_hash>>)
                /\ r.s.history = history
                /\ r.s.blobs = blobs
                /\ poll_clipboard(r.s).ok
                /\ poll_clipboard(r.s).val = None
                /\ poll_clipboard(r.s).s.history = history
            /\ ~r.ok => r.s.guard = guard

---------------------------------------------------------------------------
(* The pure functions of the history store on inputs of their own:         *)
(* pin = [limit, items] is the input, pout the output.                     *)

\* records with pairwise distinct keys, as the capture chain builds them
Fresh(t) ==
    << to_text_item(<<"a">>, t),
       StripPreview(image_item_from_rgba_bytes({}, "P", t).item),
       to_text_item(<<"b">>, t),
       StripPreview(image_item_from_path({}, "Q", t).item) >>

\* stored records: two keys, every flag and every time stamp; the text is
\* one that poll_clipboard stores (CaptureText, then to_text_item)
StoredPool ==
    LET raw == <<"a", "CR", "CR", "CR", "CR", "LF", "b">>
        bases == { to_text_item(normalize_text(raw), 0),
                   StripPreview(image_item_from_rgba_bytes({}, "P", 0).item) }
    IN  { [b EXCEPT !.is_favorite = f, !.updated_at = u] :
              b \in bases, f \in BOOLEAN, u \in 0..MaxTime }

InitPure(inputs) ==
    /\ history = << >>
    /\ blobs = {}
    /\ guard = None
    /\ clip = EmptyClipboard
    /\ now = 0
    /\ historyLimit = LimitHi
    /\ lock = "free"
    /\ pc = [p \in Procs |-> "idle"]
    /\ loc = [p \in Procs |-> None]
    /\ pin \in inputs
    /\ pout = None
    /\ calls = 0
    /\ storageDir = "A"
    /\ newRoot = FreshRoot
    /\ fplock = "free"

\* one more record, with a key not given before, is upserted
UpsertNext ==
    \E k \in DOMAIN Fresh(0) :
        LET t == Len(pin.items) + 1
            incoming == Fresh(t)[k]
        IN  /\ \A i \in DOMAIN pin.items : ~SameKey(pin.items[i], incoming)
            /\ pin' = [pin EXCEPT !.items = Append(pin.items, incoming)]
            /\ pout' = dedupe_and_upsert(IF pin.items = << >> THEN << >> ELSE pout,
                                         incoming, pin.limit, t)
            /\ UNCHANGED <<history, blobs, guard, clip, now, historyLimit, lock, pc, loc, calls, storageDir, newRoot, fplock>>

SpecUpsert ==
    InitPure({[limit |-> n, items |-> << >>] : n \in 1..MaxList}) /\ [][UpsertNext]_vars

\* the clean pass runs on the input
CleanRun ==
    /\ pout = None
    /\ pout' = [merged |-> CleanMerge(pin.items),
                cleaned |-> clean_history(pin.items, pin.limit)]
    /\ UNCHANGED <<history, blobs, guard, clip, now, historyLimit, lock, pc, loc, pin, calls, storageDir, newRoot, fplock>>

SpecClean ==
    /\ InitPure({[limit |-> n, items |-> l] :
                    n \in 1..MaxList,
                    l \in UNION {[1..m -> StoredPool] : m \in 0..MaxList}})
    /\ [][CleanRun]_vars

\* the encoded pictures given to the store
PngPool ==
    {encode_rgba_to_png_bytes(pic) : pic \in {"P", "Q"}}
        \cup {encode_dynamic_to_png_bytes(pic) : pic \in {"P", "Q"}}

MaxStores == 2

\* the same bytes are stored once more, in the directory the store before left
StoreRun ==
    \E t \in 0..MaxTime :
        LET bl == IF pout = << >> THEN pin.blobs ELSE pout[Len(pout)].blobs
        IN  /\ Len(pout) < MaxStores
            /\ pout' = Append(pout, image_item_from_png_bytes(bl, pin.png_bytes, t))
            /\ UNCHANGED <<history, blobs, guard, clip, now, historyLimit, lock, pc, loc, pin, calls, storageDir, newRoot, fplock>>

SpecStore ==
    /\ InitPure({[blobs |-> bl, png_bytes |-> b] :
                    bl \in SUBSET {BlobName(hash_bytes(x)) : x \in PngPool},
                    b \in PngPool})
    /\ [][StoreRun]_vars

\* the names and the entries of the image sub-directories given to the relocation
MigrateNames == {BlobName(hash_bytes(encode_rgba_to_png_bytes(pic))) : pic \in {"P", "Q"}}

MigrateEntries ==
    {<<"file", encode_rgba_to_png_bytes(pic)>> : pic \in {"P", "Q"}} \cup {<<"dir">>}

\* the history files: none, the empty list, one image record
MigrateHistories ==
    {None, Some(save_history(<< >>)),
     Some(save_history(
         <<image_item_from_png_bytes({}, encode_rgba_to_png_bytes("P"), 0).item>>))}

MigrateRoots ==
    [history : MigrateHistories,
     images : {None} \cup {Some(f) : f \in UNION {[names -> MigrateEntries] :
                                                    names \in SUBSET MigrateNames}}]

MigrateFails ==
    {<<"none">>, <<"copy_history">>, <<"create_images">>}
        \cup {<<"copy_blob", done>> : done \in SUBSET MigrateNames}

\* the relocation runs on the input
MigrateRun ==
    /\ pout = None
    /\ pout' = migrate_storage_if_needed(pin.fs, pin.old_dir, pin.new_dir, pin.fail)
    /\ UNCHANGED <<history, blobs, guard, clip, now, historyLimit, lock, pc, loc, pin, calls, storageDir, newRoot, fplock>>

SpecMigrate ==
    /\ InitPure([fs : [{"A", "B"} -> MigrateRoots],
                 old_dir : {"A", "A2", "B"},
                 new_dir : {"A", "A2", "B"},
                 fail : MigrateFails])
    /\ [][MigrateRun]_vars

\* what the read APIs may return in one poll: each bitmap API fails, delivers
\* a picture or delivers a buffer the encoder rejects; the file list, the HTML
\* fragment and the text are absent or one of a few values
CaptureClips ==
    {Clipboard(plugin, arboard, dib, files, html, text) :
        plugin \in {None, Some("P"), Some("BAD")},
        arboard \in {None, Some("P"), Some("BAD")},
        dib \in {None, Some("Q"), Some("BAD")},
        files \in {None, Some(<<"X">>), Some(<<"X", "Q">>)},
        html \in {None, Some(<<"a">>), Some(<<"b", "TAGP">>)},
        text \in {None, Some(<<"SP", "CR", "LF">>), Some(<<"SP", "a", "LF">>),
                  Some(<<"REFQ">>), Some(<<"a", "LOG", "REFQ">>),
                  Some(<<"a", "CR", "CR", "CR", "LF", "b">>)}}

\* the state before anything was captured
FirstState ==
    [history |-> << >>, blobs |-> {}, guard |-> None, clip |-> EmptyClipboard,
     now |-> 0, historyLimit |-> LimitHi]

\* the states a poll under check starts in: the first one, and the one a poll
\* of the text "b" and a tick of the clock leave
CaptureStates ==
    {FirstState,
     [poll_clipboard([FirstState EXCEPT !.clip = TextClipboard(<<"b">>)]).s
         EXCEPT !.now = 1]}

\* poll_clipboard runs on the clipboard of the input
CaptureRun ==
    /\ pout = None
    /\ pout' = poll_clipboard([pin.before EXCEPT !.clip = pin.clip])
    /\ UNCHANGED <<history, blobs, guard, clip, now, historyLimit, lock, pc, loc, pin, calls, storageDir, newRoot, fplock>>

SpecCapture ==
    /\ InitPure([before : CaptureStates, clip : CaptureClips])
    /\ [][CaptureRun]_vars

\* the candidate of the poll of the input
PinCandidate == Capture(pin.clip, pin.before.blobs, pin.before.now)

\* what each strategy of the chain yields on its own, in the order of the
\* code: None, or Some([item, blobs])
Strategies(c, bl, t) ==
    << IF c.plugin # None /\ c.plugin[1] # "BAD"
       THEN Some(image_item_from_rgba_bytes(bl, c.plugin[1], t)) ELSE None,
       IF c.arboard # None /\ c.arboard[1] # "BAD"
       THEN Some(image_item_from_rgba_bytes(bl, c.arboard[1], t)) ELSE None,
       IF c.dib # None /\ c.dib[1] # "BAD"
       THEN Some(image_item_from_rgba_bytes(bl, c.dib[1], t)) ELSE None,
       CaptureFiles(c, bl, t),
       CaptureHtml(c, bl, t),
       IF CaptureText(c, bl, t).kind = "item"
       THEN Some([item |-> CaptureText(c, bl, t).item, blobs |-> CaptureText(c, bl, t).blobs])
       ELSE None >>

PinStrategies == Strategies(pin.clip, pin.before.blobs, pin.before.now)

\* the first strategy of the input that yields an item, 0 if none does
PinFirst == Position(PinStrategies, LAMBDA r : r # None)

Reverse(s) == [i \in DOMAIN s |-> s[Len(s) + 1 - i]]

\* C16: storing the same encoded bytes again in the same root returns the same
\* relative path, the image directory followed by the name made of the content
\* hash, and the second store adds no file and writes none.
C16_StoreTwiceSameBlob ==
    \A i \in 2..Len(pout) :
        /\ pout[i].item.image_path = pout[1].item.image_path
        /\ pout[i].item.image_path = Some(BlobPath(hash_bytes(pin.png_bytes)))
        /\ pout[i].blobs = pout[1].blobs
        /\ pout[1].blobs = pin.blobs \cup {BlobName(hash_bytes(pin.png_bytes))}
        /\ ~pout[i].wrote

\* the first store created the file and the second ran at another time
C16_Witness ==
    /\ Len(pout) = 2
    /\ pout[1].wrote
    /\ pin.blobs # {}
    /\ pout[1].item.created_at # pout[2].item.created_at

\* C19: the relocation deletes and overwrites nothing, whether it succeeds or
\* fails: between equal roots the file system is left as it was; otherwise
\* the old root is left as it was, and the history file and every entry of the
\* image sub-directory the new root had before keep their content.
C19_MigrateKeepsWhatExists ==
    pout # None =>
        LET o == Resolve(pin.old_dir)
            n == Resolve(pin.new_dir)
        IN  /\ o = n => pout.fs = pin.fs
            /\ pout.fs[o] = pin.fs[o]
            /\ pin.fs[n].history # None => pout.fs[n].history = pin.fs[n].history
            /\ \A name \in DOMAIN Entries(pin.fs[n]) :
                   /\ name \in DOMAIN Entries(pout.fs[n])
                   /\ Entries(pout.fs[n])[name] = Entries(pin.fs[n])[name]
            /\ \A d \in DOMAIN pin.fs \ {o, n} : pout.fs[d] = pin.fs[d]

\* a relocation copied a blob into a new root that held another history file
\* and, under a name of the old root, other bytes
C19_Witness ==
    /\ pout # None
    /\ pout.ok
    /\ LET old == pin.fs[Resolve(pin.old_dir)]
           new == pin.fs[Resolve(pin.new_dir)]
           after == pout.fs[Resolve(pin.new_dir)]
       IN  /\ old.history # None /\ new.history # None /\ old.history # new.history
           /\ \E name \in BlobFiles(old) \cap BlobFiles(new) :
                  Entries(old)[name] # Entries(new)[name]
           /\ \E name \in BlobFiles(after) : name \notin DOMAIN Entries(new)

\* the blob files of the current root after relocating it to new_dir, or
\* another root into it
BlobsAfterMigrate(s, old_dir, new_dir, fail) ==
    BlobFiles(migrate_storage_if_needed(FsOf(s), old_dir, new_dir, fail).fs["A"])

\* C17: a blob file of the current root is removed only by delete_history_item
\* of the image record that owns it and by clear_history: poll_clipboard, also
\* when it evicts the owning record, toggle_favorite, copy_history_item,
\* get_history, get_image_preview and the relocation remove none.
C17_BlobsRemovedOnlyByDeleteAndClear ==
    /\ blobs \subseteq poll_clipboard(State).s.blobs
    /\ get_history(State).s.blobs = blobs
    /\ \A id \in Ids :
           /\ toggle_favorite(State, id).s.blobs = blobs
           /\ get_image_preview(State, id).s.blobs = blobs
           /\ \A write_ok \in BOOLEAN : copy_history_item(State, id, write_ok).s.blobs = blobs
           /\ blobs \ delete_history_item(State, id).s.blobs
                  \subseteq {BlobName(history[i].content_hash) :
                                 i \in {k \in DOMAIN history :
                                           history[k].id = id /\ history[k].item_type = "image"}}
    /\ \A fail \in MigrateFails :
           /\ \A new_dir \in {"A", "A2", "B"} :
                  BlobsAfterMigrate(State, "A", new_dir, fail) = blobs
           /\ blobs \subseteq BlobsAfterMigrate(State, "B", "A", fail)

\* the poll about to run evicts an image record and leaves its blob file
C17_Witness ==
    LET r == poll_clipboard(State)
    IN  \E i \in DOMAIN history :
            /\ history[i].item_type = "image"
            /\ BlobName(history[i].content_hash) \in blobs
            /\ \A j \in DOMAIN r.s.history : r.s.history[j].id # history[i].id
            /\ BlobName(history[i].content_hash) \in r.s.blobs

\* the results of the commands that write another list to the history file in
\* the current state
Writes ==
    {r \in {poll_clipboard(State), clear_history(State)}
            \cup {toggle_favorite(State, id) : id \in Ids}
            \cup {delete_history_item(State, id) : id \in Ids} :
        r.s.history # history}

\* C18 (as claimed): the list a command has written is read back by
\* get_history record for record, in the same order and with every field equal;
\* the preview field is absent in the file and on every record read back.
C18_WriteReloadRoundTrip ==
    \A r \in Writes :
        /\ get_history(r.s).val = r.s.history
        /\ \A i \in DOMAIN r.s.history : r.s.history[i].image_preview_data_url = None

\* C22 (as claimed): a failure inside a single strategy never makes the poll
\* fail, and a poll in which no strategy yields an item returns Ok(None).
C22_StrategyFailureIsNotPollFailure ==
    pout # None =>
        /\ pout.ok
        /\ PinFirst = 0 => pout.val = None

\* C23: the candidate of a poll is the item of the first strategy, in the
\* order primary bitmap, secondary bitmap, raw bitmap, file list, HTML, text,
\* that yields one; the poll adds at most one record; a text item is the
\* candidate only when the five strategies before yield nothing and the text
\* does not resolve to a picture.
C23_FirstStrategyWins ==
    pout # None =>
        /\ PinCandidate.kind = "item" =>
               /\ PinFirst # 0
               /\ PinCandidate.item = PinStrategies[PinFirst][1].item
               /\ PinCandidate.blobs = PinStrategies[PinFirst][1].blobs
        /\ (PinCandidate.kind = "item" /\ PinCandidate.item.item_type = "text") =>
               /\ \A k \in 1..5 : PinStrategies[k] = None
               /\ try_image_item_from_text_source(
                      pin.before.blobs, normalize_text(pin.clip.text[1]), pin.before.now) = None
        /\ Len(pout.s.history) <= Len(pin.before.history) + 1
        /\ pout.val # None => SameKey(pout.val[1], PinCandidate.item)

\* the file list holds a picture while the HTML fragment and the text hold
\* others, and the poll returned the record of the file
C23_Witness ==
    /\ pout # None
    /\ pout.val # None
    /\ PinFirst = 4
    /\ PinStrategies[5] # None
    /\ PinStrategies[6] # None
    /\ pout.val[1].content_hash = hash_bytes(encode_dynamic_to_png_bytes("Q"))

\* the text contains the pair CR LF
HasCrLf(text) == \E i \in 1..(Len(text) - 1) : text[i] = "CR" /\ text[i + 1] = "LF"

\* the clipboard of the input holds nothing a strategy before the text one
\* reads, and a text with a diagnostic substring
OnlyLogText ==
    /\ pin.clip.plugin = None /\ pin.clip.arboard = None /\ pin.clip.dib = None
    /\ PinStrategies[4] = None /\ PinStrategies[5] = None
    /\ pin.clip.text # None
    /\ "LOG" \in Range(pin.clip.text[1])

\* C28: a poll of a clipboard whose only capturable content is a text with a
\* diagnostic substring returns Ok(None) and leaves the history, the blob
\* directory and the guard as they were; and no text record a poll inserts or
\* returns holds such a substring.
C28_LogTextIsDropped ==
    pout # None =>
        /\ OnlyLogText =>
               /\ pout.ok /\ pout.val = None
               /\ pout.s.history = pin.before.history
               /\ pout.s.blobs = pin.before.blobs
               /\ pout.s.guard = pin.before.guard
        /\ \A i \in DOMAIN pout.s.history :
               pout.s.history[i].text # None => "LOG" \notin Range(pout.s.history[i].text[1])
        /\ (pout.val # None /\ pout.val[1].text # None)
               => "LOG" \notin Range(pout.val[1].text[1])

\* a text that holds a diagnostic substring and a reference to a picture was
\* polled after another text had been captured
C28_Witness ==
    /\ pout # None
    /\ OnlyLogText
    /\ "REFQ" \in Range(pin.clip.text[1])
    /\ pin.before.history # << >>
    /\ pin.before.guard # None

\* C29 (as claimed): a text record a poll inserts has a text that is not
\* empty, holds no CR LF pair and no white space at either end, and its
\* content_hash is the hash of that text.
C29_StoredTextIsCanonical ==
    (pout # None /\ pout.val # None /\ pout.val[1].item_type = "text") =>
        LET item == pout.s.history[1]
        IN  /\ item.text # None
            /\ item.text[1] # << >>
            /\ ~HasCrLf(item.text[1])
            /\ Trim(item.text[1]) = item.text[1]
            /\ item.content_hash = hash_bytes(item.text[1])

\* C4: after N + k records with pairwise distinct keys were upserted into an
\* empty list one after another (k > 0, N the limit), the list holds exactly
\* the N records upserted last, the last one first.
C4_KeepsNewest ==
    Len(pin.items) > pin.limit =>
        /\ Len(pout) = pin.limit
        /\ pout = SubSeq(Reverse(pin.items), 1, pin.limit)

\* two records more than the limit were upserted
C4_Witness ==
    /\ pin.limit = 2
    /\ Len(pin.items) = 4
    /\ Len(pout) = 2
    /\ pout[1] = pin.items[4]

\* the records of a list that have the key of item k
WithKey(items, k) == {i \in DOMAIN items : SameKey(items[i], k)}

\* C8: before truncation the clean pass holds exactly one record for each key
\* of its input; its is_favorite is the OR of the is_favorite of the input
\* records with that key and its updated_at is the largest of theirs.
C8_MergeByKey ==
    pout # None =>
        /\ \A i \in DOMAIN pin.items :
              /\ Cardinality(WithKey(pout.merged, pin.items[i])) = 1
              /\ \A j \in WithKey(pout.merged, pin.items[i]) :
                    /\ pout.merged[j].is_favorite =
                          (\E a \in WithKey(pin.items, pin.items[i]) : pin.items[a].is_favorite)
                    /\ \A a \in WithKey(pin.items, pin.items[i]) :
                          pout.merged[j].updated_at >= pin.items[a].updated_at
                    /\ \E a \in WithKey(pin.items, pin.items[i]) :
                          pout.merged[j].updated_at = pin.items[a].updated_at
        /\ \A j \in DOMAIN pout.merged : WithKey(pin.items, pout.merged[j]) # {}

\* the pass has merged three records of one key, the favorite one not the newest
C8_Witness ==
    /\ pout # None
    /\ Len(pin.items) = 3
    /\ Len(pout.merged) = 1
    /\ pin.items[1].updated_at < pin.items[2].updated_at
    /\ pin.items[1].is_favorite /\ ~pin.items[2].is_favorite /\ ~pin.items[3].is_favorite
    /\ pout.merged[1].is_favorite

\* C9 (as claimed): the clean pass is idempotent on lists of records that
\* can be stored: cleaning its result again changes no field and no position.
C9_CleanIdempotent ==
    pout # None => clean_history(pout.cleaned, pin.limit) = pout.cleaned

---------------------------------------------------------------------------
(* The commands step by step, run by threads that interleave.  A step is   *)
(* one access to a shared resource: the history lock, the clipboard, the   *)
(* blob directory, the guard (whose own lock is held for that step only),  *)
(* the history file.                                                       *)

\* the commands started in an interleaved run
MaxCalls == 4

\* the contents other programs put on the clipboard while threads interleave
ConcClips == {TextClipboard(<<"a">>), ImageClipboard("P")}

Goto(p, label, locals) ==
    /\ pc' = [pc EXCEPT ![p] = label]
    /\ loc' = [loc EXCEPT ![p] = locals]

Return(p) == Goto(p, "idle", None)

\* thread p enters a command
Call(p) ==
    /\ pc[p] = "idle"
    /\ calls < MaxCalls
    /\ calls' = calls + 1

\* a poll that enters without waiting for the history lock
PollWithoutLock(p) ==
    /\ Call(p)
    /\ lock' = p
    /\ Goto(p, "poll_capture", None)
    /\ UNCHANGED <<history, blobs, guard, clip, now, historyLimit, pin, pout, storageDir, newRoot, fplock>>

\* poll_clipboard, lines 1061-1066: the history lock is taken
PollLock(p) ==
    /\ Call(p)
    /\ lock = "free"
    /\ lock' = p
    /\ Goto(p, "poll_capture", None)
    /\ UNCHANGED <<history, blobs, guard, clip, now, historyLimit, pin, pout, storageDir, newRoot, fplock>>

\* the clipboard holds what a copy_history_item of another thread wrote at
\* lines 1261-1278 and that command has not reached its guard (lines 1280-1286)
WrittenByCopy(p) ==
    \E q \in Procs \ {p} :
        pc[q] = "copy_guard" /\ clip = ClipboardAfterCopy(loc[q].item)

\* poll_clipboard, lines 1068-1214: the capture chain; copied records where
\* the captured content came from
PollCapture(p) ==
    LET cap == Capture(clip, blobs, now)
    IN  /\ pc[p] = "poll_capture"
        /\ blobs' = cap.blobs
        /\ IF cap.kind = "item"
           THEN Goto(p, "poll_guard", [item |-> cap.item, copied |-> WrittenByCopy(p)])
                /\ UNCHANGED lock
           ELSE Return(p) /\ lock' = "free"
        /\ UNCHANGED <<history, guard, clip, now, historyLimit, pin, pout, calls, storageDir, newRoot, fplock>>

\* poll_clipboard, lines 1216-1226: the guard is checked and set
PollGuard(p) ==
    /\ pc[p] = "poll_guard"
    /\ IF guard = Some(fingerprint(loc[p].item))
       THEN Return(p) /\ lock' = "free" /\ UNCHANGED guard
       ELSE /\ guard' = Some(fingerprint(loc[p].item))
            /\ Goto(p, "poll_load", loc[p])
            /\ UNCHANGED lock
    /\ UNCHANGED <<history, blobs, clip, now, historyLimit, pin, pout, calls, storageDir, newRoot, fplock>>

\* poll_clipboard, lines 1228-1229: settings and history are read
PollLoad(p) ==
    /\ pc[p] = "poll_load"
    /\ Goto(p, "poll_save", [item |-> loc[p].item, copied |-> loc[p].copied,
                             items |-> load_history(history), limit |-> historyLimit])
    /\ UNCHANGED <<history, blobs, guard, clip, now, historyLimit, lock, pin, pout, calls, storageDir, newRoot, fplock>>

\* poll_clipboard, lines 1230-1251: upsert, write, return; the lock is dropped
PollSave(p) ==
    /\ pc[p] = "poll_save"
    /\ history' = save_history(
                      dedupe_and_upsert(loc[p].items, loc[p].item, loc[p].limit, now))
    /\ lock' = "free"
    /\ Return(p)
    /\ UNCHANGED <<blobs, guard, clip, now, historyLimit, pin, pout, calls, storageDir, newRoot, fplock>>

\* toggle_favorite, lines 1299-1309: the history is read; an unknown id returns
ToggleLoad(p, id) ==
    LET items == load_history_clean(history, historyLimit)
    IN  /\ Call(p)
        /\ IF IdIndex(items, id) = 0
           THEN UNCHANGED <<pc, loc>>
           ELSE Goto(p, "toggle_save", [items |-> items, idx |-> IdIndex(items, id)])
        /\ UNCHANGED <<history, blobs, guard, clip, now, historyLimit, lock, pin, pout, storageDir, newRoot, fplock>>

\* toggle_favorite, lines 1302-1320: flip, stamp, sort, write
ToggleSave(p) ==
    /\ pc[p] = "toggle_save"
    /\ history' = save_history(ToggleItems(loc[p].items, loc[p].idx, now))
    /\ Return(p)
    /\ UNCHANGED <<blobs, guard, clip, now, historyLimit, lock, pin, pout, calls, storageDir, newRoot, fplock>>

\* delete_history_item, lines 1325-1329: the history lock is taken
DeleteLock(p, id) ==
    /\ Call(p)
    /\ lock = "free"
    /\ lock' = p
    /\ Goto(p, "delete_load", [id |-> id])
    /\ UNCHANGED <<history, blobs, guard, clip, now, historyLimit, pin, pout, storageDir, newRoot, fplock>>

\* delete_history_item, lines 1331-1335: the history is read; an unknown id
\* returns
DeleteLoad(p) ==
    LET items == load_history_clean(history, historyLimit)
        idx == IdIndex(items, loc[p].id)
    IN  /\ pc[p] = "delete_load"
        /\ IF idx = 0
           THEN Return(p) /\ lock' = "free"
           ELSE Goto(p, "delete_blob", [items |-> items, idx |-> idx]) /\ UNCHANGED lock
        /\ UNCHANGED <<history, blobs, guard, clip, now, historyLimit, pin, pout, calls, storageDir, newRoot, fplock>>

\* delete_history_item, lines 1337-1344: the blob file is removed
DeleteBlob(p) ==
    /\ pc[p] = "delete_blob"
    /\ blobs' = BlobsAfterDelete(blobs, loc[p].items[loc[p].idx])
    /\ Goto(p, "delete_save", loc[p])
    /\ UNCHANGED <<history, guard, clip, now, historyLimit, lock, pin, pout, calls, storageDir, newRoot, fplock>>

\* delete_history_item, line 1346: the list without the record is written
DeleteSave(p) ==
    /\ pc[p] = "delete_save"
    /\ history' = save_history(RemoveAt(loc[p].items, loc[p].idx))
    /\ Goto(p, "delete_guard", loc[p])
    /\ UNCHANGED <<blobs, guard, clip, now, historyLimit, lock, pin, pout, calls, storageDir, newRoot, fplock>>

\* delete_history_item, lines 1348-1356: the guard; the lock is dropped
DeleteGuard(p) ==
    /\ pc[p] = "delete_guard"
    /\ guard' = GuardAfterDelete(guard, loc[p].items[loc[p].idx])
    /\ lock' = "free"
    /\ Return(p)
    /\ UNCHANGED <<history, blobs, clip, now, historyLimit, pin, pout, calls, storageDir, newRoot, fplock>>

\* clear_history, lines 1361-1365: the history lock is taken
ClearLock(p) ==
    /\ Call(p)
    /\ lock = "free"
    /\ lock' = p
    /\ Goto(p, "clear_save", None)
    /\ UNCHANGED <<history, blobs, guard, clip, now, historyLimit, pin, pout, storageDir, newRoot, fplock>>

\* clear_history, line 1366: the empty list is written
ClearSave(p) ==
    /\ pc[p] = "clear_save"
    /\ history' = save_history(<< >>)
    /\ Goto(p, "clear_blobs", None)
    /\ UNCHANGED <<blobs, guard, clip, now, historyLimit, lock, pin, pout, calls, storageDir, newRoot, fplock>>

\* clear_history, lines 1368-1378: every blob file is removed
ClearBlobs(p) ==
    /\ pc[p] = "clear_blobs"
    /\ blobs' = {}
    /\ Goto(p, "clear_read", None)
    /\ UNCHANGED <<history, guard, clip, now, historyLimit, lock, pin, pout, calls, storageDir, newRoot, fplock>>

\* clear_history, line 1380: the clipboard is read
ClearRead(p) ==
    /\ pc[p] = "clear_read"
    /\ Goto(p, "clear_guard", [fp |-> fingerprint_from_current_clipboard(clip)])
    /\ UNCHANGED <<history, blobs, guard, clip, now, historyLimit, lock, pin, pout, calls, storageDir, newRoot, fplock>>

\* clear_history, lines 1382-1388: the guard; the lock is dropped
ClearGuard(p) ==
    /\ pc[p] = "clear_guard"
    /\ guard' = loc[p].fp
    /\ lock' = "free"
    /\ Return(p)
    /\ UNCHANGED <<history, blobs, clip, now, historyLimit, pin, pout, calls, storageDir, newRoot, fplock>>

\* copy_history_item, lines 1256-1259: the history is read; an unknown id returns
CopyLoad(p, id) ==
    LET items == load_history_clean(history, historyLimit)
    IN  /\ Call(p)
        /\ IF IdIndex(items, id) = 0
           THEN UNCHANGED <<pc, loc>>
           ELSE Goto(p, "copy_write", [item |-> items[IdIndex(items, id)]])
        /\ UNCHANGED <<history, blobs, guard, clip, now, historyLimit, lock, pin, pout, storageDir, newRoot, fplock>>

\* copy_history_item, lines 1261-1278: the blob of an image is read, the
\* clipboard written; a missing blob or a failed write returns
CopyWrite(p, write_ok) ==
    LET item == loc[p].item
    IN  /\ pc[p] = "copy_write"
        /\ IF \/ ~write_ok
              \/ /\ item.item_type # "text"
                 /\ (item.image_path = None \/ BlobName(item.content_hash) \notin blobs)
           THEN Return(p) /\ UNCHANGED clip
           ELSE clip' = ClipboardAfterCopy(item) /\ Goto(p, "copy_guard", loc[p])
        /\ UNCHANGED <<history, blobs, guard, now, historyLimit, lock, pin, pout, calls, storageDir, newRoot, fplock>>

\* copy_history_item, lines 1280-1286: the guard
CopyGuard(p) ==
    /\ pc[p] = "copy_guard"
    /\ guard' = Some(fingerprint(loc[p].item))
    /\ Return(p)
    /\ UNCHANGED <<history, blobs, clip, now, historyLimit, lock, pin, pout, calls, storageDir, newRoot, fplock>>

NextConc ==
    \/ \E p \in Procs :
          \/ PollLock(p) \/ PollCapture(p) \/ PollGuard(p) \/ PollLoad(p) \/ PollSave(p)
          \/ \E id \in Ids : ToggleLoad(p, id)
          \/ ToggleSave(p)
          \/ \E id \in Ids : DeleteLock(p, id)
          \/ DeleteLoad(p) \/ DeleteBlob(p) \/ DeleteSave(p) \/ DeleteGuard(p)
          \/ ClearLock(p) \/ ClearSave(p) \/ ClearBlobs(p) \/ ClearRead(p) \/ ClearGuard(p)
          \/ \E id \in Ids : CopyLoad(p, id)
          \/ \E write_ok \in BOOLEAN : CopyWrite(p, write_ok)
          \/ CopyGuard(p)
    \/ \E c \in ConcClips : SetClipboard(c)
    \/ Tick

SpecConc == Init /\ [][NextConc]_vars

\* the commands that take the history lock, alone
NextLocked ==
    \/ \E p \in Procs :
          \/ PollLock(p) \/ PollCapture(p) \/ PollGuard(p) \/ PollLoad(p) \/ PollSave(p)
          \/ \E id \in Ids : DeleteLock(p, id)
          \/ DeleteLoad(p) \/ DeleteBlob(p) \/ DeleteSave(p) \/ DeleteGuard(p)
          \/ ClearLock(p) \/ ClearSave(p) \/ ClearBlobs(p) \/ ClearRead(p) \/ ClearGuard(p)
    \/ \E c \in ConcClips : SetClipboard(c)
    \/ Tick

SpecLocked == Init /\ [][NextLocked]_vars

\* the commands that take the history lock, and toggle_favorite on one thread
NextToggle ==
    \/ NextLocked
    \/ \E id \in Ids : ToggleLoad("t1", id)
    \/ ToggleSave("t1")

SpecToggle == Init /\ [][NextToggle]_vars

\* the dedup keys of a list are pairwise distinct
NoDuplicateKeys(items) ==
    \A i, j \in DOMAIN items : SameKey(items[i], items[j]) => i = j

\* the list is ordered by non-increasing updated_at
SortedByUpdatedAt(items) ==
    \A i \in 1..(Len(items) - 1) : items[i].updated_at >= items[i + 1].updated_at

\* C1: starting from the empty history, whatever commands run and however
\* their steps interleave, the history file never holds two records with the
\* same (item_type, content_hash).
C1_OneRecordPerKey == NoDuplicateKeys(history)

\* a content was captured again while another record was stored in front of it
C1_Witness ==
    /\ Len(history) = 2
    /\ history[1].updated_at > history[1].created_at
    /\ history[1].created_at < history[2].created_at
    /\ ~history[1].is_favorite

\* C6 (as claimed): however poll, toggle_favorite and delete_history_item
\* interleave, the history file is ordered by non-increasing updated_at.
C6_SortedByUpdatedAt == SortedByUpdatedAt(history)

\* C24: poll_clipboard, delete_history_item and clear_history exclude each
\* other from the lock to the return: one of two threads is always outside,
\* the thread inside holds the history lock, what it has read of the history
\* file and the guard is still what they hold when it writes (no update is
\* lost, the outcome is that of the commands run one after the other), and
\* the history never holds a content twice.
C24_LockSerializes ==
    /\ \A p, q \in Procs : p # q => (pc[p] = "idle" \/ pc[q] = "idle")
    /\ \A p \in Procs :
           /\ pc[p] # "idle" => lock = p
           /\ pc[p] \in {"poll_load", "poll_save"} => guard = Some(fingerprint(loc[p].item))
           /\ pc[p] = "poll_save" =>
                  /\ loc[p].items = load_history(history)
                  /\ loc[p].limit = historyLimit
           /\ pc[p] \in {"delete_blob", "delete_save"} =>
                  loc[p].items = load_history_clean(history, historyLimit)
           /\ pc[p] = "delete_guard" =>
                  history = save_history(RemoveAt(loc[p].items, loc[p].idx))
    /\ (\A p \in Procs : pc[p] = "idle") => lock = "free"
    /\ NoDuplicateKeys(history)

\* a delete is about to write while the clipboard holds a content that is not
\* in the history and that a poll, were it not kept out, would insert
C24_Witness ==
    \E p \in Procs :
        /\ pc[p] = "delete_save"
        /\ lock = p
        /\ calls < MaxCalls
        /\ Candidate(State).kind = "item"
        /\ guard # Some(fingerprint(Candidate(State).item))
        /\ \A i \in DOMAIN history : ~SameKey(history[i], Candidate(State).item)

\* C25 (as claimed): toggle_favorite does not interleave with a poll, a delete
\* or a clear: the list it read is still what the history file holds when it
\* writes, so that no record inserted meanwhile is lost and none removed
\* meanwhile comes back.
C25_ToggleSerializes ==
    \A p \in Procs :
        pc[p] = "toggle_save" => loc[p].items = load_history_clean(history, historyLimit)

\* C15 (as claimed): a poll that captured what a copy_history_item still in
\* flight wrote to the clipboard, the copied record being still stored, does
\* not ingest it: the list it writes is the list it read (items, order and
\* updated_at), so the history file is what it was before the two commands.
C15_PollIgnoresConcurrentCopy ==
    \A p \in Procs :
        (/\ pc[p] = "poll_save"
         /\ loc[p].copied
         /\ \E i \in DOMAIN loc[p].items : SameKey(loc[p].items[i], loc[p].item))
            => dedupe_and_upsert(loc[p].items, loc[p].item, loc[p].limit, now)
                   = loc[p].items

\* C20 (as claimed): whenever no command is running, a successful relocation
\* of the current root into a new directory gives the new root the history
\* file and every blob file of the old one, so that every image record of the
\* copied history has its blob file in the new root.
C20_MigratedItemsHaveBlobs ==
    (\A p \in Procs : pc[p] = "idle") =>
        LET r == migrate_storage_if_needed(FsOf(State), "A", "B", <<"none">>)
            new == r.fs["B"]
        IN  /\ r.ok
            /\ new.history = Some(history)
            /\ BlobFiles(RootOf(State)) \subseteq BlobFiles(new)
            /\ \A i \in DOMAIN history :
                   history[i].item_type = "image"
                       => BlobName(history[i].content_hash) \in BlobFiles(new)

---------------------------------------------------------------------------
(* A change of the storage root while other commands run.  Directory "A"   *)
(* is the root the engine starts with (history, blobs), "B" the directory  *)
(* a new storage_dir names (newRoot).  data_dir() reads the settings file  *)
(* at every call, so a command works in the directory storageDir names at  *)
(* the time it runs.                                                       *)

\* ensure_storage_layout, lines 440-449, on a root
ensure_storage_layout(root) ==
    [history |-> IF root.history = None THEN Some(<< >>) ELSE root.history,
     images |-> IF root.images = None THEN Some(<< >>) ELSE root.images]

\* the two directories
Fs == [d \in {"A", "B"} |-> IF d = "A" THEN RootOf(State) ELSE newRoot]

\* the records of the history file of a root, none when there is no file
RootHistory(root) == IF root.history = None THEN << >> ELSE root.history[1]

\* the state a command finds in directory dir once its layout is ensured
StateAt(dir) ==
    IF dir = "A" THEN State
    ELSE [State EXCEPT !.history = RootHistory(ensure_storage_layout(newRoot)),
                       !.blobs = BlobFiles(ensure_storage_layout(newRoot))]

\* thread p runs a command from call to return in the directory in effect and
\* leaves state s
RunInEffect(p, s) ==
    /\ Call(p)
    /\ guard' = s.guard
    /\ clip' = s.clip
    /\ IF storageDir = "A"
       THEN history' = s.history /\ blobs' = s.blobs /\ UNCHANGED newRoot
       ELSE newRoot' = RootOf(s) /\ UNCHANGED <<history, blobs>>
    /\ UNCHANGED <<now, historyLimit, lock, pc, loc, pin, pout, storageDir, fplock>>

RelocPoll(p) == RunInEffect(p, poll_clipboard(StateAt(storageDir)).s)

RelocGetHistory(p) == RunInEffect(p, get_history(StateAt(storageDir)).s)

RelocClear(p) == RunInEffect(p, clear_history(StateAt(storageDir)).s)

\* update_settings, lines 995-1019: the settings with storage_dir = dir are
\* written; new_before records the new root as it is at this moment
SettingsSave(p, dir) ==
    /\ Call(p)
    /\ storageDir' = dir
    /\ Goto(p, "settings_migrate",
            [old_dir |-> storageDir, new_dir |-> dir, new_before |-> Fs[dir]])
    /\ UNCHANGED <<history, blobs, guard, clip, now, historyLimit, lock, pin, pout, newRoot, fplock>>

\* the I/O errors that may strike a relocation between the two directories
RelocFails == {<<"none">>, <<"copy_history">>, <<"create_images">>, <<"copy_blob", {}>>}

\* update_settings, lines 1021-1022: the relocation, which returns its error
\* with `?`; nothing that was written before is taken back
SettingsMigrate(p, fail) ==
    LET r == migrate_storage_if_needed(Fs, loc[p].old_dir, loc[p].new_dir, fail)
    IN  /\ pc[p] = "settings_migrate"
        /\ blobs' = BlobFiles(r.fs["A"])
        /\ newRoot' = r.fs["B"]
        /\ Return(p)
        /\ UNCHANGED <<history, guard, clip, now, historyLimit, lock, pin, pout, calls, storageDir, fplock>>

NextRelocate ==
    \/ \E p \in Procs :
          \/ \E dir \in {"A", "B"} : SettingsSave(p, dir)
          \/ \E fail \in RelocFails : SettingsMigrate(p, fail)
          \/ RelocPoll(p)
          \/ RelocGetHistory(p)
          \/ RelocClear(p)
    \/ \E c \in ConcClips : SetClipboard(c)
    \/ Tick

SpecRelocate == Init /\ [][NextRelocate]_vars

\* C21 (as claimed): while one update_settings is between writing the settings
\* and relocating, no other command has read or initialised the new root (it is
\* as it was when the settings were written), and if the new root had no
\* history file then, the relocation gives it every record of the old root.
C21_MigrationBeforeNewRootInEffect ==
    \A p \in Procs :
        (/\ pc[p] = "settings_migrate"
         /\ loc[p].old_dir # loc[p].new_dir
         /\ \A q \in Procs \ {p} : pc[q] = "idle")
            => LET r == migrate_storage_if_needed(Fs, loc[p].old_dir, loc[p].new_dir,
                                                  <<"none">>)
               IN  /\ Fs[loc[p].new_dir] = loc[p].new_before
                   /\ loc[p].new_before.history = None
                          => \A i \in DOMAIN RootHistory(Fs[loc[p].old_dir]) :
                                 \E j \in DOMAIN RootHistory(r.fs[loc[p].new_dir]) :
                                     RootHistory(r.fs[loc[p].new_dir])[j].id
                                         = RootHistory(Fs[loc[p].old_dir])[i].id

\* what the commands that read the history file return on State
ReadingCommands ==
    {get_history(State)}
        \cup {get_image_preview(State, id) : id \in Ids}
        \cup {copy_history_item(State, id, write_ok) : id \in Ids, write_ok \in BOOLEAN}
        \cup {toggle_favorite(State, id) : id \in Ids}
        \cup {delete_history_item(State, id) : id \in Ids}

\* what the commands other than clear_history leave on State
OtherCommands ==
    {r.s : r \in ReadingCommands}
        \cup {poll_clipboard(State).s}
        \cup {update_settings(State, v).s : v \in (LimitLo - 1)..(LimitHi + 1)}

\* C26: with a history file that cannot be parsed, get_history,
\* get_image_preview, copy_history_item, toggle_favorite and
\* delete_history_item fail and change nothing, and no command except
\* clear_history rewrites the file; a root without a history file reads as the
\* empty history.
C26_UnparsableFileIsKept ==
    /\ Unparsable(history) =>
          /\ \A r \in ReadingCommands : ~r.ok /\ r.s = State
          /\ \A t \in OtherCommands : t.history = history
    /\ newRoot.history = None =>
          get_history(StateAt("B")).ok /\ get_history(StateAt("B")).val = << >>

C26_Witness ==
    /\ Unparsable(history)
    /\ blobs # {}
    /\ guard # None
    /\ clip # EmptyClipboard
    /\ guard # fingerprint_from_current_clipboard(clip)

\* C27 (as claimed): a poll that fails while loading or saving leaves the
\* guard as it was.
C27_FailedPollKeepsGuard ==
    LET r == poll_clipboard(State)
    IN  ~r.ok => r.s.guard = guard

---------------------------------------------------------------------------
(* Termination.  The commands step by step as above, with the waits made   *)
(* visible: a thread that has entered a command waits for history_lock     *)
(* and for the mutex around last_capture_fingerprint before it holds       *)
(* them, and poll counts its reads of the two bitmap APIs.                 *)

\* the commands started in a run whose termination is checked
LiveCalls == 2

\* the secondary bitmap API is asked at most this many times: `0..2`, line 1109
SecondaryReads == 2

\* the contents other programs put on the clipboard: a bitmap both APIs
\* deliver, a bitmap only the secondary API delivers
LiveClips ==
    {ImageClipboard("P"), Clipboard(None, Some("P"), None, None, None, None)}

\* what the storage root holds when the program starts: nothing, or the
\* picture an earlier run captured
LiveStores ==
    {FirstState, poll_clipboard([FirstState EXCEPT !.clip = ImageClipboard("P")]).s}

\* the program starts: the guard is empty, the mutexes are free
InitLive ==
    /\ \E s \in LiveStores : history = s.history /\ blobs = s.blobs
    /\ guard = None
    /\ clip = EmptyClipboard
    /\ now = 0
    /\ historyLimit = LimitHi
    /\ lock = "free"
    /\ fplock = "free"
    /\ pc = [p \in Procs |-> "idle"]
    /\ loc = [p \in Procs |-> None]
    /\ pin = None
    /\ pout = None
    /\ calls = 0
    /\ storageDir = "A"
    /\ newRoot = FreshRoot

\* poll_clipboard is entered, line 1060
PollEnter(p) ==
    /\ Call(p)
    /\ Goto(p, "poll_wait", None)
    /\ UNCHANGED <<history, blobs, guard, clip, now, historyLimit, lock, pin, pout, storageDir, newRoot, fplock>>

\* poll_clipboard, lines 1063-1066: history_lock.lock() returns
PollAcquire(p) ==
    /\ pc[p] = "poll_wait"
    /\ lock = "free"
    /\ lock' = p
    /\ Goto(p, "poll_primary", [primary |-> 0, secondary |-> 0])
    /\ UNCHANGED <<history, blobs, guard, clip, now, historyLimit, pin, pout, calls, storageDir, newRoot, fplock>>

\* poll_clipboard, lines 1083-1104: the primary bitmap API is read, once
PollPrimary(p) ==
    /\ pc[p] = "poll_primary"
    /\ Goto(p, IF clip.plugin # None /\ clip.plugin[1] # "BAD"
               THEN "poll_chain" ELSE "poll_secondary",
            [loc[p] EXCEPT !.primary = @ + 1])
    /\ UNCHANGED <<history, blobs, guard, clip, now, historyLimit, lock, pin, pout, calls, storageDir, newRoot, fplock>>

\* poll_clipboard, lines 1106-1126: one pass of `for attempt in 0..2`; a
\* bitmap breaks the loop, the last pass ends it
PollSecondary(p) ==
    /\ pc[p] = "poll_secondary"
    /\ Goto(p, IF clip.arboard # None \/ loc[p].secondary + 1 = SecondaryReads
               THEN "poll_chain" ELSE "poll_secondary",
            [loc[p] EXCEPT !.secondary = @ + 1])
    /\ UNCHANGED <<history, blobs, guard, clip, now, historyLimit, lock, pin, pout, calls, storageDir, newRoot, fplock>>

\* poll_clipboard, lines 1083-1214: the candidate of the capture chain; without
\* one the command returns and the lock is dropped
PollChain(p) ==
    LET cap == Capture(clip, blobs, now)
    IN  /\ pc[p] = "poll_chain"
        /\ blobs' = cap.blobs
        /\ IF cap.kind = "item"
           THEN Goto(p, "poll_fp_wait",
                     [item |-> cap.item, copied |-> WrittenByCopy(p),
                      primary |-> loc[p].primary, secondary |-> loc[p].secondary])
                /\ UNCHANGED lock
           ELSE Return(p) /\ lock' = "free"
        /\ UNCHANGED <<history, guard, clip, now, historyLimit, pin, pout, calls, storageDir, newRoot, fplock>>

\* poll_clipboard, lines 1218-1221: last_capture_fingerprint.lock() returns
PollFpAcquire(p) ==
    /\ pc[p] = "poll_fp_wait"
    /\ fplock = "free"
    /\ fplock' = p
    /\ Goto(p, "poll_fp", loc[p])
    /\ UNCHANGED <<history, blobs, guard, clip, now, historyLimit, lock, pin, pout, calls, storageDir, newRoot>>

\* poll_clipboard, lines 1222-1226: the guard is checked and set and its mutex
\* dropped; an equal guard returns
PollFp(p) ==
    /\ pc[p] = "poll_fp"
    /\ fplock' = "free"
    /\ IF guard = Some(fingerprint(loc[p].item))
       THEN Return(p) /\ lock' = "free" /\ UNCHANGED guard
       ELSE /\ guard' = Some(fingerprint(loc[p].item))
            /\ Goto(p, "poll_load", loc[p])
            /\ UNCHANGED lock
    /\ UNCHANGED <<history, blobs, clip, now, historyLimit, pin, pout, calls, storageDir, newRoot>>

\* delete_history_item is entered, line 1324
DeleteEnter(p, id) ==
    /\ Call(p)
    /\ Goto(p, "delete_wait", [id |-> id])
    /\ UNCHANGED <<history, blobs, guard, clip, now, historyLimit, lock, pin, pout, storageDir, newRoot, fplock>>

\* delete_history_item, lines 1325-1329: history_lock.lock() returns
DeleteAcquire(p) ==
    /\ pc[p] = "delete_wait"
    /\ lock = "free"
    /\ lock' = p
    /\ Goto(p, "delete_load", loc[p])
    /\ UNCHANGED <<history, blobs, guard, clip, now, historyLimit, pin, pout, calls, storageDir, newRoot, fplock>>

\* delete_history_item, lines 1348-1351: last_capture_fingerprint.lock() returns
DeleteFpAcquire(p) ==
    /\ pc[p] = "delete_guard"
    /\ fplock = "free"
    /\ fplock' = p
    /\ Goto(p, "delete_fp", loc[p])
    /\ UNCHANGED <<history, blobs, guard, clip, now, historyLimit, lock, pin, pout, calls, storageDir, newRoot>>

\* a delete that returns with the history lock held
DeleteFpKeepingLock(p) ==
    /\ pc[p] = "delete_fp"
    /\ guard' = GuardAfterDelete(guard, loc[p].items[loc[p].idx])
    /\ fplock' = "free"
    /\ Return(p)
    /\ UNCHANGED <<history, blobs, clip, now, historyLimit, lock, pin, pout, calls, storageDir, newRoot>>

\* delete_history_item, lines 1352-1357: the guard; both mutexes are dropped
DeleteFp(p) ==
    /\ pc[p] = "delete_fp"
    /\ guard' = GuardAfterDelete(guard, loc[p].items[loc[p].idx])
    /\ fplock' = "free"
    /\ lock' = "free"
    /\ Return(p)
    /\ UNCHANGED <<history, blobs, clip, now, historyLimit, pin, pout, calls, storageDir, newRoot>>

\* clear_history is entered, line 1360
ClearEnter(p) ==
    /\ Call(p)
    /\ Goto(p, "clear_wait", None)
    /\ UNCHANGED <<history, blobs, guard, clip, now, historyLimit, lock, pin, pout, storageDir, newRoot, fplock>>

\* clear_history, lines 1361-1364: history_lock.lock() returns
ClearAcquire(p) ==
    /\ pc[p] = "clear_wait"
    /\ lock = "free"
    /\ lock' = p
    /\ Goto(p, "clear_save", None)
    /\ UNCHANGED <<history, blobs, guard, clip, now, historyLimit, pin, pout, calls, storageDir, newRoot, fplock>>

\* clear_history, lines 1382-1385: last_capture_fingerprint.lock() returns
ClearFpAcquire(p) ==
    /\ pc[p] = "clear_guard"
    /\ fplock = "free"
    /\ fplock' = p
    /\ Goto(p, "clear_fp", loc[p])
    /\ UNCHANGED <<history, blobs, guard, clip, now, historyLimit, lock, pin, pout, calls, storageDir, newRoot>>

\* clear_history, lines 1386-1389: the guard; both mutexes are dropped
ClearFp(p) ==
    /\ pc[p] = "clear_fp"
    /\ guard' = loc[p].fp
    /\ fplock' = "free"
    /\ lock' = "free"
    /\ Return(p)
    /\ UNCHANGED <<history, blobs, clip, now, historyLimit, pin, pout, calls, storageDir, newRoot>>

\* copy_history_item, lines 1280-1283: last_capture_fingerprint.lock() returns
CopyFpAcquire(p) ==
    /\ pc[p] = "copy_guard"
    /\ fplock = "free"
    /\ fplock' = p
    /\ Goto(p, "copy_fp", loc[p])
    /\ UNCHANGED <<history, blobs, guard, clip, now, historyLimit, lock, pin, pout, calls, storageDir, newRoot>>

\* copy_history_item, lines 1284-1287: the guard; its mutex is dropped
CopyFp(p) ==
    /\ pc[p] = "copy_fp"
    /\ guard' = Some(fingerprint(loc[p].item))
    /\ fplock' = "free"
    /\ Return(p)
    /\ UNCHANGED <<history, blobs, clip, now, historyLimit, lock, pin, pout, calls, storageDir, newRoot>>

\* a mutex is handed to thread p, which waits for it
Acquire(p) ==
    \/ PollAcquire(p) \/ PollFpAcquire(p)
    \/ DeleteAcquire(p) \/ DeleteFpAcquire(p)
    \/ ClearAcquire(p) \/ ClearFpAcquire(p)
    \/ CopyFpAcquire(p)

\* thread p, inside a command, takes a step that waits for nothing
Run(p) ==
    \/ PollPrimary(p) \/ PollSecondary(p) \/ PollChain(p) \/ PollFp(p)
    \/ PollLoad(p) \/ PollSave(p)
    \/ ToggleSave(p)
    \/ DeleteLoad(p) \/ DeleteBlob(p) \/ DeleteSave(p) \/ DeleteFp(p)
    \/ ClearSave(p) \/ ClearBlobs(p) \/ ClearRead(p) \/ ClearFp(p)
    \/ \E write_ok \in BOOLEAN : CopyWrite(p, write_ok)
    \/ CopyFp(p)

\* thread p enters a command
Enter(p) ==
    /\ calls < LiveCalls
    /\ \/ PollEnter(p)
       \/ \E id \in Ids : ToggleLoad(p, id)
       \/ \E id \in Ids : DeleteEnter(p, id)
       \/ ClearEnter(p)
       \/ \E id \in Ids : CopyLoad(p, id)

NextLive ==
    \/ \E p \in Procs : Enter(p) \/ Acquire(p) \/ Run(p)
    \/ \E c \in LiveClips : SetClipboard(c)

\* every thread inside a command is scheduled, and a mutex that is free again
\* and again is handed to each thread that waits for it
Fairness == \A p \in Procs : WF_vars(Run(p)) /\ SF_vars(Acquire(p))

SpecLive == InitLive /\ [][NextLive]_vars /\ Fairness

\* the positions of poll_clipboard at which its read counts are kept
PollReading == {"poll_primary", "poll_secondary", "poll_chain", "poll_fp_wait", "poll_fp"}

\* C30: a poll reads the primary bitmap API once and the secondary one at most
\* twice, and every command a thread has entered returns with neither
\* history_lock nor the fingerprint mutex held by that thread.
C30_EveryCommandReturns ==
    /\ [](\A p \in Procs :
            pc[p] \in PollReading =>
                /\ loc[p].primary <= 1
                /\ loc[p].secondary <= SecondaryReads
                /\ (pc[p] \in {"poll_chain", "poll_fp_wait", "poll_fp"} => loc[p].primary = 1))
    /\ \A p \in Procs :
            (pc[p] # "idle") ~> (pc[p] = "idle" /\ lock # p /\ fplock # p)

C30_Witness ==
    \E p \in Procs, q \in Procs :
        /\ pc[p] = "poll_fp" /\ loc[p].secondary = SecondaryReads
        /\ lock = p /\ fplock = p
        /\ pc[q] \in {"poll_wait", "delete_wait", "clear_wait", "copy_guard"}

\* C31 (as claimed): when the relocation of an update_settings fails, the
\* settings file still names the old root and that root holds the history it
\* held before.
C31_FailedMigrationKeepsOldRoot ==
    \A p \in Procs, fail \in RelocFails :
        (/\ pc[p] = "settings_migrate"
         /\ \A q \in Procs \ {p} : pc[q] = "idle"
         /\ ~migrate_storage_if_needed(Fs, loc[p].old_dir, loc[p].new_dir, fail).ok)
            => /\ storageDir = loc[p].old_dir
               /\ migrate_storage_if_needed(Fs, loc[p].old_dir, loc[p].new_dir, fail)
                      .fs[loc[p].old_dir] = Fs[loc[p].old_dir]

\* C32 (as claimed): whenever no command is running, every image record of
\* the history file has its image_path, no text and its blob file in the image
\* directory, and every text record has its text and no image_path.
C32_RecordsAreWellFormed ==
    (\A p \in Procs : pc[p] = "idle") =>
        \A i \in DOMAIN history :
            IF history[i].item_type = "image"
            THEN /\ history[i].image_path # None
                 /\ history[i].text = None
                 /\ BlobName(history[i].content_hash) \in blobs
            ELSE /\ history[i].text # None
                 /\ history[i].image_path = None

\* the ids of a list, in its order
IdList(items) == [i \in DOMAIN items |-> items[i].id]

\* the first n positions of a list
FirstPositions(items, n) == SubSeq(items, 1, IF Len(items) > n THEN n ELSE Len(items))

\* the list a poll that stores its candidate has before line 951 cuts it
PollUncut == PollUpsert(history, Candidate(State).item, Len(history) + 1, now)

\* C33: the list an upsert or a clean pass cuts is ordered by non-increasing
\* updated_at, and what is kept is exactly its first historyLimit positions;
\* is_favorite plays no part, a favorite beyond them is dropped.
C33_EvictionByPosition ==
    /\ PollAccepts =>
          /\ SortedByUpdatedAt(PollUncut)
          /\ IdList(poll_clipboard(State).s.history)
                 = IdList(FirstPositions(PollUncut, historyLimit))
    /\ SortedByUpdatedAt(CleanMerge(load_history(history)))
    /\ IdList(get_history(State).val)
           = IdList(FirstPositions(CleanMerge(load_history(history)), historyLimit))

\* the history is full, its last record is a favorite, and the poll that runs
\* here stores a content that is not in the history: the favorite is dropped
C33_Witness ==
    /\ PollAccepts
    /\ Len(history) = historyLimit
    /\ history[Len(history)].is_favorite
    /\ KeyIndex(history, Candidate(State).item) = 0
    /\ \A i \in DOMAIN poll_clipboard(State).s.history :
           poll_clipboard(State).s.history[i].id # history[Len(history)].id

\* clipboard contents no strategy turns into a candidate: nothing, blank text,
\* a line of the program's own log, a dropped file that is no picture, an HTML
\* fragment without a picture
NothingClips ==
    { EmptyClipboard,
      TextClipboard(<<"SP", "CR", "LF">>),
      TextClipboard(<<"a", "LOG", "REFQ">>),
      Clipboard(None, None, None, Some(<<"X">>), None, None),
      Clipboard(None, None, None, None, Some(<<"a">>), None) }

\* C34: a poll without a candidate returns nothing and leaves the guard and
\* the history as they are; when the clipboard then holds again the content
\* the guard names, the next poll returns nothing too and the record of that
\* content keeps its updated_at and its position.
C34_NoCandidateKeepsGuard ==
    LET x == Candidate(State)
    IN  (x.kind = "item" /\ guard = Some(fingerprint(x.item)) /\ ~Unparsable(history)) =>
            \A c \in NothingClips, dt1 \in 0..(MaxTime - now) :
                LET r1 == poll_clipboard(Later([State EXCEPT !.clip = c], dt1))
                IN  /\ Capture(c, blobs, now + dt1).kind = "none"
                    /\ r1.ok /\ r1.val = None
                    /\ r1.s.guard = guard
                    /\ r1.s.history = history
                    /\ \A dt2 \in 0..(MaxTime - now - dt1) :
                           LET r2 == poll_clipboard(Later([r1.s EXCEPT !.clip = clip], dt2))
                           IN  /\ r2.ok /\ r2.val = None
                               /\ r2.s.guard = guard
                               /\ r2.s.history = history

\* the content the guard names is on the clipboard and its record is the
\* second of the history, stamped before now
C34_Witness ==
    /\ Candidate(State).kind = "item"
    /\ guard = Some(fingerprint(Candidate(State).item))
    /\ KeyIndex(history, Candidate(State).item) = 2
    /\ history[2].updated_at < now

\* the record delete_history_item(id) removes in the current state
Removed(id) ==
    LET items == load_history_clean(history, historyLimit)
    IN  items[IdIndex(items, id)]

\* the clipboard holds the content of record it
ClipboardHolds(it) ==
    Candidate(State).kind = "item" /\ SameKey(Candidate(State).item, it)

\* the poll dt milliseconds after delete_history_item(id)
PollAfterDelete(id, dt) == poll_clipboard(Later(delete_history_item(State, id).s, dt))

\* the poll after delete_history_item(id) has put the removed content at the
\* front as the record a capture builds at that time, in front of what the
\* delete left, and returns it
Reinserted(id, dt) ==
    LET d == delete_history_item(State, id)
        r == PollAfterDelete(id, dt)
    IN  /\ r.ok /\ r.val # None
        /\ SameKey(r.s.history[1], Removed(id))
        /\ r.val[1].id = r.s.history[1].id
        /\ ~r.s.history[1].is_favorite
        /\ r.s.history[1].created_at = now + dt
        /\ r.s.history[1].updated_at = now + dt
        /\ IdList(Tail(r.s.history)) = IdList(FirstPositions(d.s.history, historyLimit - 1))

\* the poll after delete_history_item(id) stores the removed content only
\* when the clipboard holds it
ReinsertedOnlyFromClipboard(id, dt) ==
    KeyIndex(PollAfterDelete(id, dt).s.history, Removed(id)) # 0 => ClipboardHolds(Removed(id))

\* C35 (as claimed): the record the poll after the delete inserts has an id
\* other than that of the removed record.
C35_ReinsertedWithNewId ==
    \A id \in Ids, dt \in 0..(MaxTime - now) :
        (/\ delete_history_item(State, id).ok
         /\ guard = Some(fingerprint(Removed(id)))
         /\ ClipboardHolds(Removed(id)))
            => /\ Reinserted(id, dt)
               /\ PollAfterDelete(id, dt).s.history[1].id # Removed(id).id

\* C35 (amended): when delete_history_item removes the record the guard names
\* and the clipboard holds its content, the next poll stores the content at
\* the front as a record built at that time (not a favorite, created_at the
\* time of the poll) and returns it; its id differs from the removed one when
\* the poll runs at another millisecond than the removed record was created.
\* When the guard names something else, the next poll stores the removed
\* content only when the clipboard holds it.
C35_DeleteThenPollReinserts ==
    \A id \in Ids, dt \in 0..(MaxTime - now) :
        delete_history_item(State, id).ok =>
            /\ (guard = Some(fingerprint(Removed(id))) /\ ClipboardHolds(Removed(id)))
                  => /\ Reinserted(id, dt)
                     /\ Removed(id).created_at # now + dt
                            => PollAfterDelete(id, dt).s.history[1].id # Removed(id).id
            /\ guard # Some(fingerprint(Removed(id))) => ReinsertedOnlyFromClipboard(id, dt)

\* the guard names a favorite record captured earlier, the clipboard holds its
\* content, and another record is stored as well
C35_Witness ==
    \E id \in Ids :
        /\ delete_history_item(State, id).ok
        /\ guard = Some(fingerprint(Removed(id)))
        /\ ClipboardHolds(Removed(id))
        /\ Removed(id).is_favorite
        /\ Removed(id).created_at < now
        /\ Len(history) = 2
        /\ PollAfterDelete(id, 0).val # None

====
